---- MODULE Spec2Model ----
(***************************************************************************)
(* Model of the DCKP-ES transform-and-container pipeline of nebulacrypt:   *)
(* key derivation, logistic-map keystream, pixel chunking, chunk shuffle,  *)
(* XOR + diffusion cipher, the AARTHA binary package and the orchestrator  *)
(* that drives them (src/apps/encryption/services).                        *)
(*                                                                         *)
(* Conventions.                                                            *)
(*  - A numpy array is a record [shape |-> <<d1,..>>, data |-> <<..>>]:    *)
(*    data is the row-major (C order) flattening, elements are 0..255      *)
(*    (dtype uint8) unless said otherwise.                                 *)
(*  - A Python str is a sequence of one-character strings; a bytes object  *)
(*    is a sequence of numbers 0..255.                                     *)
(*  - Python indices are 0-based, TLA+ sequences 1-based: element i of a   *)
(*    Python sequence s is s[i+1] here.                                    *)
(*  - An operation that can raise returns a record with a field err: ""    *)
(*    when it returned normally, else the kind of the exception.           *)
(***************************************************************************)
EXTENDS Integers, Sequences, FiniteSets, TLC

VARIABLES
    pc,         \* the position of the running function
    L,          \* its local variables, by name
    sha256,     \* hashlib.sha256, as far as it has been evaluated: str -> digest
    mt19937,    \* np.random.RandomState(seed).shuffle(arange(n)), as far as it
                \* has been evaluated: <<n, seed>> -> permutation
    storage,    \* the files under MEDIA_ROOT/encrypted: name -> bytes
    transfers,  \* the EncryptionTransfer rows, in order of creation
    outbox      \* the emails handed to the mail backend, in order

vars == << pc, L, sha256, mt19937, storage, transfers, outbox >>

(***************************************************************************)
(* Bounds of the model.                                                    *)
(***************************************************************************)
MaxH == 4
MaxW == 8
MaxChunks == 4
MaxBufLen == 3
MaxPages == 2
MaxCut == 9
MaxCalls == 3

(***************************************************************************)
(* Program constants.                                                      *)
(***************************************************************************)
CHUNK_SIZE == 32

----------------------------------------------------------------------------
(* Generic helpers: bytes, sequences, numpy arrays.                        *)

Byte == 0..255

RECURSIVE Xor(_, _)
\* a ^ b on non-negative integers (numpy bitwise_xor / Python ^ on uint8).
Xor(a, b) ==
    IF a = 0 THEN b
    ELSE IF b = 0 THEN a
    ELSE (((a % 2) + (b % 2)) % 2) + 2 * Xor(a \div 2, b \div 2)

RECURSIVE Prod(_)
\* number of elements of an array of the given shape
Prod(shape) ==
    IF shape = <<>> THEN 1 ELSE Head(shape) * Prod(Tail(shape))

Array(shape, data) == [shape |-> shape, data |-> data]

\* ndarray.flatten(): the 1-D array of the elements in row-major order
Flatten(a) == Array(<<Len(a.data)>>, a.data)

\* ndarray.astype(np.uint8) on integer elements: reduction modulo 256
AsUint8(a) == Array(a.shape, [i \in 1..Len(a.data) |-> a.data[i] % 256])

\* ndarray.reshape(shape): raises ValueError when the sizes differ
CanReshape(a, shape) == Prod(shape) = Len(a.data)
Reshape(a, shape) == Array(shape, a.data)

\* len(a) of an array: the size of its first dimension
NumRows(a) == a.shape[1]

----------------------------------------------------------------------------
(* PixelProcessor (pixel_processor.py).                                    *)

\* PIL image <-> array.  An image is held as the uint8 array np.array gives
\* for it (mode L: (h,w); mode RGB: (h,w,3)); Image.fromarray(astype(uint8))
\* keeps shape and reduces every element to a byte.
image_to_array(image) == image
array_to_image(array) == AsUint8(array)

\* chunk_pixels: flatten, zero-pad to a multiple of chunk_size, reshape into
\* num_chunks rows; returns <<chunks, metadata>>.
\* faulty variant: a whole chunk of padding when the size is a multiple
chunk_pixels_always_pad(image, chunk_size) ==
    LET flat_array == Flatten(image_to_array(image)).data
        padding    == chunk_size - (Len(flat_array) % chunk_size)
        padded     == flat_array \o [i \in 1..padding |-> 0]
    IN  << Array(<<Len(padded) \div chunk_size, chunk_size>>, padded),
           [original_shape |-> image_to_array(image).shape,
            original_size  |-> Len(flat_array),
            padding        |-> padding,
            num_chunks     |-> Len(padded) \div chunk_size,
            chunk_size     |-> chunk_size] >>

chunk_pixels(image, chunk_size) ==
    LET img_array     == image_to_array(image)
        flat_array    == Flatten(img_array).data
        original_size == Len(flat_array)
        remainder     == original_size % chunk_size
        padding       == IF remainder # 0 THEN chunk_size - remainder ELSE 0
        padded        == flat_array \o [i \in 1..padding |-> 0]
        num_chunks    == Len(padded) \div chunk_size
    IN  << Array(<<num_chunks, chunk_size>>, padded),
           [original_shape |-> img_array.shape,
            original_size  |-> original_size,
            padding        |-> padding,
            num_chunks     |-> num_chunks,
            chunk_size     |-> chunk_size] >>

\* faulty variant: the padding is never dropped
unchunk_flat_keep_padding(chunks, metadata) == chunks.data

\* unchunk_pixels: flatten, drop the padding (only when padding > 0), reshape
\* to original_shape (ValueError when the sizes differ), convert to an image.
unchunk_flat(chunks, metadata) ==
    IF metadata.padding > 0
    THEN SubSeq(chunks.data, 1, metadata.original_size)
    ELSE chunks.data

unchunk_ok(chunks, metadata) ==
    Prod(metadata.original_shape) = Len(unchunk_flat(chunks, metadata))

unchunk_pixels(chunks, metadata) ==
    array_to_image(Array(metadata.original_shape, unchunk_flat(chunks, metadata)))

\* chunks[indices]: numpy integer-array indexing of the rows of a 2-D array;
\* an index i in -n..n-1 selects row i (negative: n+i), any other raises
\* IndexError.
IndexOk(n, idx) == \A k \in 1..Len(idx) : idx[k] >= -n /\ idx[k] < n

TakeRows(chunks, idx) ==
    LET n == chunks.shape[1]
        c == chunks.shape[2]
        row(k) == IF idx[k] < 0 THEN n + idx[k] ELSE idx[k]
    IN  Array(<<Len(idx), c>>,
              [j \in 1..(Len(idx) * c) |->
                  chunks.data[(row(((j - 1) \div c) + 1) * c) + ((j - 1) % c) + 1]])

\* np.argsort(a): the indices (0-based) that sort a; for distinct values the
\* result is unique, ties are broken by position.
ArgSort(a) ==
    LET n == Len(a)
        rank(i) == Cardinality({j \in 1..n : a[j] < a[i] \/ (a[j] = a[i] /\ j < i)})
    IN  [r \in 1..n |-> (CHOOSE i \in 1..n : rank(i) = r - 1) - 1]

\* the permutations of 0..n-1, as sequences of length n
Permutations0(n) ==
    {p \in [1..n -> 0..(n - 1)] : \A i, j \in 1..n : p[i] = p[j] => i = j}

\* faulty variant: the shuffle indices applied once more instead of their argsort
unshuffle_chunks_no_argsort(shuffled_chunks, shuffle_indices) ==
    TakeRows(shuffled_chunks, shuffle_indices)

\* unshuffle_chunks: rows re-ordered by argsort(shuffle_indices)
unshuffle_chunks(shuffled_chunks, shuffle_indices) ==
    TakeRows(shuffled_chunks, ArgSort(shuffle_indices))

\* shuffle_chunks, given the indices generate_shuffle_indices returned for
\* (len(chunks), seed): shuffled[i] = chunks[shuffle_indices[i]]
shuffle_chunks(chunks, shuffle_indices) ==
    << TakeRows(chunks, shuffle_indices), shuffle_indices >>

----------------------------------------------------------------------------
(* Wide Python integers.  The model checker's integers are 32-bit signed,  *)
(* so a non-negative Python int that may reach 2^32 is held as two limbs:  *)
(* value = hi * 65536 + lo, 0 <= lo < 65536, hi >= 0.                      *)

Wide(hi, lo) == [hi |-> hi, lo |-> lo]

\* v + p for a small non-negative p
WideAdd(v, p) ==
    LET s == v.lo + p
    IN  Wide(v.hi + (s \div 65536), s % 65536)

\* np.random.RandomState(seed) accepts exactly 0 <= seed <= 2^32 - 1
SeedOk(v) == v.hi < 65536

----------------------------------------------------------------------------
(* DCKPESEncryptor (dckp_es.py): keystream and cipher.                     *)

\* The chaos seed 0.1 + 0.8 * (k / 1000000) is held exactly, as the integer
\* 1000000 + 8 * k over the denominator 10000000.  The logistic map itself
\* runs in fixed point with denominator 50000 (so every product fits the
\* checker's integers): x stands for the float x / 50000.  Only the
\* self-consistency of the float computation is modelled, not its digits.
\* _logistic_map, one iteration: x <- 3.99 * x * (1 - x)
logistic_map(x) == (399 * ((x * (50000 - x)) \div 50000)) \div 100

RECURSIVE ForUp(_, _, _, _)
\* s after: for i in range(lo, hi + 1): s = body(s, i).  The range is split
\* in halves, the first evaluated before the second (the comparison forces
\* it), only to keep the evaluation shallow; the order is ascending.
ForUp(body(_, _), s, lo, hi) ==
    IF lo > hi THEN s
    ELSE IF lo = hi THEN body(s, lo)
    ELSE LET mid   == (lo + hi) \div 2
             first == ForUp(body, s, lo, mid)
         IN  IF first = first THEN ForUp(body, first, mid + 1, hi) ELSE s

RECURSIVE ForDown(_, _, _, _)
\* s after: for i in range(hi, lo - 1, -1): s = body(s, i)  (descending)
ForDown(body(_, _), s, hi, lo) ==
    IF lo > hi THEN s
    ELSE IF lo = hi THEN body(s, lo)
    ELSE LET mid   == (lo + hi) \div 2
             first == ForDown(body, s, hi, mid + 1)
         IN  IF first = first THEN ForDown(body, first, mid, lo) ELSE s

\* for _ in range(iterations): x = CHAOS_R * x * (1 - x)
logistic_iter(x, iterations) ==
    LET step(y, i) == logistic_map(y)
    IN  ForUp(step, x, 1, iterations)

\* the emitting loop: x = _logistic_map(x); sequence[i] = int(x * 255) % 256
chaos_from(x, length) ==
    LET emit(st, i) ==
            LET y == logistic_map(st.x)
            IN  [x |-> y, sequence |-> Append(st.sequence, ((y * 255) \div 50000) % 256)]
    IN  ForUp(emit, [x |-> x, sequence |-> <<>>], 1, length).sequence

\* _generate_chaos_sequence: 100 burn-in iterations, then length bytes
generate_chaos_sequence(chaos_seed, length) ==
    chaos_from(logistic_iter(chaos_seed \div 200, 100), length)

\* faulty variant: each byte mixed with its original, not its updated, neighbour
diffuse_loop_not_in_place(e) ==
    [i \in 1..Len(e) |-> IF i = 1 THEN e[1] ELSE Xor(e[i], e[i - 1])]

\* for i in range(1, len(e)): e[i] = e[i] ^ e[i-1]   (in place, ascending)
diffuse_loop(e) ==
    LET mix(a, i) == [a EXCEPT ![i] = Xor(a[i], a[i - 1])]
    IN  ForUp(mix, e, 2, Len(e))

\* faulty variant: the reverse diffusion run in ascending order
undiffuse_loop_ascending(d) ==
    LET unmix(a, i) == [a EXCEPT ![i] = Xor(a[i], a[i - 1])]
    IN  ForUp(unmix, d, 2, Len(d))

\* for i in range(len(d) - 1, 0, -1): d[i] = d[i] ^ d[i-1]  (in place, descending)
undiffuse_loop(d) ==
    LET unmix(a, i) == [a EXCEPT ![i] = Xor(a[i], a[i - 1])]
    IN  ForDown(unmix, d, Len(d), 2)

xor_bytes(a, b) == [i \in 1..Len(a) |-> Xor(a[i], b[i])]

\* faulty variant: the diffusion chain started again at every row
cipher_encrypt_chain_per_row(pixel_data, chaos_seq) ==
    LET flat_data == AsUint8(Flatten(pixel_data)).data
        encrypted == xor_bytes(flat_data, chaos_seq)
        width     == IF Len(pixel_data.shape) > 1 THEN Len(flat_data) \div NumRows(pixel_data) ELSE Len(flat_data)
        mix(a, i) == IF (i - 1) % width = 0 THEN a ELSE [a EXCEPT ![i] = Xor(a[i], a[i - 1])]
    IN  Reshape(Array(<<Len(flat_data)>>, ForUp(mix, encrypted, 2, Len(flat_data))),
                pixel_data.shape)

\* the body of encrypt_pixels for a given keystream chaos_seq
cipher_encrypt(pixel_data, chaos_seq) ==
    LET flat_data == AsUint8(Flatten(pixel_data)).data
        encrypted == xor_bytes(flat_data, chaos_seq)
    IN  Reshape(Array(<<Len(flat_data)>>, diffuse_loop(encrypted)), pixel_data.shape)

\* faulty variant: the keystream removed before the diffusion is reversed
cipher_decrypt_xor_first(encrypted_data, chaos_seq) ==
    LET flat_data == AsUint8(Flatten(encrypted_data)).data
    IN  Reshape(Array(<<Len(flat_data)>>, undiffuse_loop(xor_bytes(flat_data, chaos_seq))),
                encrypted_data.shape)

\* the body of decrypt_pixels for a given keystream chaos_seq
cipher_decrypt(encrypted_data, chaos_seq) ==
    LET flat_data == AsUint8(Flatten(encrypted_data)).data
        decrypted == undiffuse_loop(flat_data)
    IN  Reshape(Array(<<Len(flat_data)>>, xor_bytes(decrypted, chaos_seq)),
                encrypted_data.shape)

encrypt_pixels(self, pixel_data) ==
    cipher_encrypt(pixel_data,
                   generate_chaos_sequence(self.chaos_seed, Len(pixel_data.data)))

\* faulty variant: the key bytes mixed into the keystream
decrypt_pixels_keyed(self, encrypted_data) ==
    LET chaos_seq == generate_chaos_sequence(self.chaos_seed, Len(encrypted_data.data))
    IN  cipher_decrypt(encrypted_data,
                       [i \in 1..Len(chaos_seq) |->
                           Xor(chaos_seq[i], self.key[((i - 1) % 16) + 1])])

decrypt_pixels(self, encrypted_data) ==
    cipher_decrypt(encrypted_data,
                   generate_chaos_sequence(self.chaos_seed, Len(encrypted_data.data)))

----------------------------------------------------------------------------
(* Python str helpers and datetime (naive, as datetime.utcnow() returns).  *)

DigitChars == <<"0", "1", "2", "3", "4", "5", "6", "7", "8", "9">>

IsDigit(ch) == \E d \in 1..10 : DigitChars[d] = ch

DigitValue(ch) == (CHOOSE d \in 1..10 : DigitChars[d] = ch) - 1

RECURSIVE Dec(_, _)
\* n in decimal, zero-padded to width characters ("%0<width>d")
Dec(n, width) ==
    IF width = 0 THEN <<>>
    ELSE Dec(n \div 10, width - 1) \o << DigitChars[(n % 10) + 1] >>

AllDigits(str) == \A i \in 1..Len(str) : IsDigit(str[i])

RECURSIVE ParseDec(_)
\* int(str) for a non-empty all-digit str
ParseDec(str) ==
    IF str = <<>> THEN 0
    ELSE (10 * ParseDec(SubSeq(str, 1, Len(str) - 1))) + DigitValue(str[Len(str)])

\* str.split(sep) for a one-character sep: the list of the parts
Split(str, sep) ==
    LET n    == Len(str)
        cuts == {i \in 1..n : str[i] = sep}
        \* the position of the k-th separator; 0 and n + 1 bound the string
        cut(k) == IF k = 0 THEN 0
                  ELSE IF k > Cardinality(cuts) THEN n + 1
                  ELSE CHOOSE i \in cuts : Cardinality({j \in cuts : j < i}) = k - 1
    IN  [k \in 1..(Cardinality(cuts) + 1) |-> SubSeq(str, cut(k - 1) + 1, cut(k) - 1)]

DateTime(Y, M, D, h, m, sec, us) ==
    [year |-> Y, month |-> M, day |-> D, hour |-> h, minute |-> m,
     second |-> sec, microsecond |-> us]

\* datetime.isoformat(): YYYY-MM-DDTHH:MM:SS, followed by .ffffff only when
\* microsecond is not 0
isoformat(t) ==
    Dec(t.year, 4) \o <<"-">> \o Dec(t.month, 2) \o <<"-">> \o Dec(t.day, 2)
    \o <<"T">> \o Dec(t.hour, 2) \o <<":">> \o Dec(t.minute, 2)
    \o <<":">> \o Dec(t.second, 2)
    \o (IF t.microsecond # 0 THEN <<".">> \o Dec(t.microsecond, 6) ELSE <<>>)

DaysInMonth(Y, M) ==
    IF M = 2
    THEN (IF (Y % 4 = 0 /\ Y % 100 # 0) \/ Y % 400 = 0 THEN 29 ELSE 28)
    ELSE IF M \in {4, 6, 9, 11} THEN 30 ELSE 31

\* The shape fromisoformat accepts for a naive datetime: a date YYYY-MM-DD,
\* alone or followed by one separator character and HH:MM:SS, itself alone or
\* followed by . and 3 or 6 digits.
IsoShapeOk(str) ==
    LET n == Len(str)
        digitsAt(S) == \A i \in S : IsDigit(str[i])
    IN  /\ n \in {10, 19, 23, 26}
        /\ digitsAt({1, 2, 3, 4, 6, 7, 9, 10})
        /\ str[5] = "-" /\ str[8] = "-"
        /\ n >= 19 => /\ digitsAt({12, 13, 15, 16, 18, 19})
                      /\ str[14] = ":" /\ str[17] = ":"
        /\ n >= 23 => str[20] = "." /\ digitsAt(21..n)

IsoFields(str) ==
    LET n == Len(str)
        num(a, b) == ParseDec(SubSeq(str, a, b))
    IN  DateTime(num(1, 4), num(6, 7), num(9, 10),
                 IF n >= 19 THEN num(12, 13) ELSE 0,
                 IF n >= 19 THEN num(15, 16) ELSE 0,
                 IF n >= 19 THEN num(18, 19) ELSE 0,
                 IF n = 23 THEN num(21, 23) * 1000
                 ELSE IF n = 26 THEN num(21, 26) ELSE 0)

IsoRangeOk(t) ==
    /\ t.year \in 1..9999 /\ t.month \in 1..12
    /\ t.day \in 1..DaysInMonth(t.year, t.month)
    /\ t.hour \in 0..23 /\ t.minute \in 0..59 /\ t.second \in 0..59

\* datetime.fromisoformat(str): raises ValueError on anything else
fromisoformat_ok(str) == IsoShapeOk(str) /\ IsoRangeOk(IsoFields(str))
fromisoformat(str) == IsoFields(str)

----------------------------------------------------------------------------
(* DCKPESEncryptor: key derivation.                                        *)

\* f"{self.filename}|{self.timestamp.isoformat()}"
unique_string(filename, timestamp) == filename \o <<"|">> \o isoformat(timestamp)

RECURSIVE BytesMod(_, _)
\* int.from_bytes(b, 'big') % m, computed limb by limb
BytesMod(b, m) ==
    IF b = <<>> THEN 0
    ELSE ((BytesMod(SubSeq(b, 1, Len(b) - 1), m) * 256) + b[Len(b)]) % m

\* faulty variant: the key taken from the second half of the digest
generate_keys_second_half(hash_bytes) ==
    << SubSeq(hash_bytes, 17, 32),
       1000000 + (BytesMod(SubSeq(hash_bytes, 17, 24), 1000000) * 8) >>

\* faulty variant: the low three bytes of seed_int taken without % 1000000
generate_keys_without_modulo(hash_bytes) ==
    << SubSeq(hash_bytes, 1, 16),
       1000000 + (BytesMod(SubSeq(hash_bytes, 22, 24), 16777216) * 8) >>

\* _generate_keys, given hash_bytes = sha256(unique_string).digest():
\* <<aes_key, chaos_seed>>; chaos_seed is the exact value times 10000000
generate_keys(hash_bytes) ==
    LET aes_key  == SubSeq(hash_bytes, 1, 16)
        seed_mod == BytesMod(SubSeq(hash_bytes, 17, 24), 1000000)
    IN  << aes_key, 1000000 + (seed_mod * 8) >>

\* DCKPESEncryptor.__init__
NewEncryptor(filename, timestamp, hash_bytes) ==
    [filename   |-> filename,
     timestamp  |-> timestamp,
     key        |-> generate_keys(hash_bytes)[1],
     chaos_seed |-> generate_keys(hash_bytes)[2]]

\* _get_shuffle_seed: int.from_bytes(self.key[:4], 'big')
get_shuffle_seed(self) ==
    Wide((self.key[1] * 256) + self.key[2], (self.key[3] * 256) + self.key[4])

----------------------------------------------------------------------------
(* Package codec (dckp_es.py): create_encryption_package and               *)
(* extract_encryption_package.                                             *)

\* b'AARTHA'
MAGIC == <<65, 65, 82, 84, 72, 65>>

\* bytes.find(token): the lowest 0-based index where token occurs, or -1
Occurs(buf, token, i) ==
    /\ i + Len(token) <= Len(buf)
    /\ \A k \in 1..Len(token) : buf[i + k] = token[k]

\* faulty variant: the token looked for at the start of the buffer only
FindAtStart(buf, token) == IF Occurs(buf, token, 0) THEN 0 ELSE -1

Find(buf, token) ==
    IF \E i \in 0..Len(buf) : Occurs(buf, token, i)
    THEN CHOOSE i \in 0..Len(buf) :
             Occurs(buf, token, i) /\ \A j \in 0..(i - 1) : ~Occurs(buf, token, j)
    ELSE -1

\* b[lo:hi] with Python's clamping of the bounds (0 <= lo)
Slice(b, lo, hi) ==
    LET h == IF hi > Len(b) THEN Len(b) ELSE hi
    IN  IF lo >= h THEN <<>> ELSE SubSeq(b, lo + 1, h)

\* struct.pack('>I', n) for 0 <= n < 2^31
\* faulty variant: the length written little-endian
PackU32LE(n) ==
    << n % 256, (n \div 256) % 256, (n \div 65536) % 256, (n \div 16777216) % 256 >>

PackU32BE(n) ==
    << (n \div 16777216) % 256, (n \div 65536) % 256, (n \div 256) % 256, n % 256 >>

\* struct.unpack('>I', b)[0]; values of 2^31 and more do not fit the
\* checker's integers and are reported as too large for any buffer here
UnpackU32BE(b) ==
    IF b[1] >= 128 THEN 2147483647
    ELSE (b[1] * 16777216) + (b[2] * 65536) + (b[3] * 256) + b[4]

\* one np.int32 in memory (little-endian, two's complement)
Int32Bytes(v) ==
    LET top == v \div 16777216
        r   == v - (top * 16777216)
    IN  << r % 256, (r \div 256) % 256, (r \div 65536) % 256, top % 256 >>

Int32Value(b) ==
    ((IF b[4] >= 128 THEN b[4] - 256 ELSE b[4]) * 16777216)
    + (b[3] * 65536) + (b[2] * 256) + b[1]

RECURSIVE ConcatRange(_, _, _)
ConcatRange(seqs, lo, hi) ==
    IF lo > hi THEN <<>>
    ELSE IF lo = hi THEN seqs[lo]
    ELSE LET mid == (lo + hi) \div 2
         IN  ConcatRange(seqs, lo, mid) \o ConcatRange(seqs, mid + 1, hi)

\* the concatenation of a sequence of sequences
Concat(seqs) == ConcatRange(seqs, 1, Len(seqs))

\* faulty variant: the indices written as np.int64, the dtype np.arange gives
ShuffleBytesInt64(shuffle_idx) ==
    Concat([i \in 1..Len(shuffle_idx) |->
               Int32Bytes(shuffle_idx[i])
               \o (IF shuffle_idx[i] < 0 THEN <<255, 255, 255, 255>> ELSE <<0, 0, 0, 0>>)])

\* shuffle_idx.astype(np.int32).tobytes()
ShuffleBytes(shuffle_idx) ==
    Concat([i \in 1..Len(shuffle_idx) |-> Int32Bytes(shuffle_idx[i])])

\* np.frombuffer(raw, dtype=np.int32): ValueError unless len(raw) % 4 = 0
ShuffleFromBytes(raw) ==
    [i \in 1..(Len(raw) \div 4) |-> Int32Value(SubSeq(raw, (4 * i) - 3, 4 * i))]

(* The metadata text.  json.dumps / json.loads are library code; they are  *)
(* modelled by a text codec with the properties the package relies on: the *)
(* record is written as a self-delimited text of variable length, { first  *)
(* and } last, holding the same fields in the same order as decimal        *)
(* numbers separated by commas (keys elided, every list preceded by its    *)
(* length, the version written as 1; the dtype name 'uint8' is             *)
(* written as its item size 1; tuples come back as lists, which are both   *)
(* sequences here); a text that is cut short or otherwise malformed does   *)
(* not parse (json.JSONDecodeError, a ValueError).                         *)

AsciiDigit(d) == 48 + d

RECURSIVE DecBytes(_)
\* str(n).encode() for n >= 0
DecBytes(n) ==
    IF n < 10 THEN << AsciiDigit(n) >>
    ELSE DecBytes(n \div 10) \o << AsciiDigit(n % 10) >>

\* the numbers of one page entry, in field order
PageNumbers(page) ==
    << Len(page.img_shape) >> \o page.img_shape
    \o << page.img_dtype, page.img_size, page.shuffle_size >>
    \o << Len(page.metadata.original_shape) >> \o page.metadata.original_shape
    \o << page.metadata.original_size, page.metadata.padding,
          page.metadata.num_chunks, page.metadata.chunk_size >>

\* ",".join(str(n) for n in nums).encode()
JoinNumbers(nums) ==
    Concat([i \in 1..Len(nums) |->
               IF i = 1 THEN DecBytes(nums[i]) ELSE <<44>> \o DecBytes(nums[i])])

\* json.dumps(package_meta).encode('utf-8')
MetaDumps(package_meta) ==
    <<123>>
    \o JoinNumbers(<< 1, package_meta.num_pages, Len(package_meta.pages) >>
                   \o Concat([i \in 1..Len(package_meta.pages) |->
                                 PageNumbers(package_meta.pages[i])]))
    \o <<125>>

RECURSIVE ParseDecBytes(_)
ParseDecBytes(b) ==
    IF b = <<>> THEN 0
    ELSE (10 * ParseDecBytes(SubSeq(b, 1, Len(b) - 1))) + (b[Len(b)] - 48)

\* the numbers of a text, or <<-1>> when the text is malformed
MetaNumbers(text) ==
    LET n == Len(text)
        inner == SubSeq(text, 2, n - 1)
        toks  == Split(inner, 44)
        good(t) == Len(t) \in 1..9 /\ \A i \in 1..Len(t) : t[i] \in 48..57
    IN  IF n < 3 \/ text[1] # 123 \/ text[n] # 125 THEN << -1 >>
        ELSE IF \E i \in 1..Len(toks) : ~good(toks[i]) THEN << -1 >>
        ELSE [i \in 1..Len(toks) |-> ParseDecBytes(toks[i])]

NoPages == [ok |-> FALSE, pages |-> <<>>]

RECURSIVE ParsePages(_, _)
\* the page entries held by a list of numbers: [ok, pages]; ok is FALSE when
\* the numbers do not form exactly that many whole entries
ParsePages(nums, count) ==
    IF count = 0 THEN [ok |-> nums = <<>>, pages |-> <<>>]
    ELSE IF nums = <<>> THEN NoPages
    ELSE LET d1 == nums[1]
             o  == d1 + 5
         IN  IF Len(nums) < o THEN NoPages
             ELSE LET d2   == nums[o]
                      last == o + d2 + 4
                  IN  IF Len(nums) < last THEN NoPages
                      ELSE LET page ==
                                 [img_shape    |-> SubSeq(nums, 2, d1 + 1),
                                  img_dtype    |-> nums[d1 + 2],
                                  img_size     |-> nums[d1 + 3],
                                  shuffle_size |-> nums[d1 + 4],
                                  metadata     |->
                                    [original_shape |-> SubSeq(nums, o + 1, o + d2),
                                     original_size  |-> nums[o + d2 + 1],
                                     padding        |-> nums[o + d2 + 2],
                                     num_chunks     |-> nums[o + d2 + 3],
                                     chunk_size     |-> nums[o + d2 + 4]]]
                               rest == ParsePages(SubSeq(nums, last + 1, Len(nums)),
                                                  count - 1)
                           IN  [ok |-> rest.ok, pages |-> << page >> \o rest.pages]

\* json.loads(meta_json): [err, num_pages, pages]
MetaLoads(text) ==
    LET nums   == MetaNumbers(text)
        parsed == ParsePages(SubSeq(nums, 4, Len(nums)), nums[3])
    IN  IF nums = << -1 >> \/ Len(nums) < 3 \/ ~parsed.ok
        THEN [err |-> "JSONDecodeError", num_pages |-> 0, pages |-> <<>>]
        ELSE [err |-> "", num_pages |-> nums[2], pages |-> parsed.pages]

\* create_encryption_package
create_encryption_package(encrypted_images, metadata_list, shuffle_indices_list, prefix_bytes) ==
    LET n == CHOOSE m \in 0..Len(encrypted_images) :
                 /\ m <= Len(metadata_list) /\ m <= Len(shuffle_indices_list)
                 /\ \A k \in (m + 1)..Len(encrypted_images) :
                        k > Len(metadata_list) \/ k > Len(shuffle_indices_list)
        img_bytes(i)     == encrypted_images[i].data
        shuffle_bytes(i) == ShuffleBytes(shuffle_indices_list[i])
        pages_meta == [i \in 1..n |->
                         [img_shape    |-> encrypted_images[i].shape,
                          img_dtype    |-> 1,
                          img_size     |-> Len(img_bytes(i)),
                          shuffle_size |-> Len(shuffle_bytes(i)),
                          metadata     |-> metadata_list[i]]]
        binary_data == Concat([i \in 1..n |-> img_bytes(i) \o shuffle_bytes(i)])
        package_meta == [num_pages |-> Len(encrypted_images), pages |-> pages_meta]
        meta_json == MetaDumps(package_meta)
        header == MAGIC \o <<1>> \o PackU32BE(Len(meta_json))
    IN  prefix_bytes \o header \o meta_json \o binary_data

RECURSIVE ExtractPages(_, _, _)
\* the loop over package['pages']: [err, pages]
ExtractPages(pages, binary_part, binary_offset) ==
    IF pages = <<>> THEN [err |-> "", pages |-> <<>>]
    ELSE LET page == Head(pages)
             img_data_raw == Slice(binary_part, binary_offset,
                                   binary_offset + page.img_size)
             off2 == binary_offset + page.img_size
             shuffle_data_raw == Slice(binary_part, off2, off2 + page.shuffle_size)
             off3 == off2 + page.shuffle_size
         IN  IF page.img_dtype # 1
             THEN [err |-> "TypeError", pages |-> <<>>]
             ELSE IF Prod(page.img_shape) # Len(img_data_raw)
             THEN [err |-> "ValueError: cannot reshape", pages |-> <<>>]
             ELSE IF Len(shuffle_data_raw) % 4 # 0
             THEN [err |-> "ValueError: buffer size", pages |-> <<>>]
             ELSE LET rest == ExtractPages(Tail(pages), binary_part, off3)
                      done == [image_data      |-> Array(page.img_shape, img_data_raw),
                               shuffle_indices |-> ShuffleFromBytes(shuffle_data_raw),
                               metadata        |-> page.metadata,
                               img_shape       |-> page.img_shape,
                               img_size        |-> page.img_size,
                               shuffle_size    |-> page.shuffle_size]
                  IN  IF rest.err # "" THEN rest
                      ELSE [err |-> "", pages |-> << done >> \o rest.pages]

\* faulty variant: version 0 accepted as well
VersionSupportedUpTo1(version) == version <= 1

\* if version != 1: raise ValueError("Unsupported package version")
VersionSupported(version) == version = 1

\* extract_encryption_package: [err, pages]
extract_encryption_package(package_bytes) ==
    LET magic_pos == Find(package_bytes, MAGIC)
        offset    == magic_pos + 6
        vbytes    == Slice(package_bytes, offset, offset + 1)
        lbytes    == Slice(package_bytes, offset + 1, offset + 5)
        meta_len  == UnpackU32BE(lbytes)
        meta_json == Slice(package_bytes, offset + 5,
                           IF meta_len > Len(package_bytes) THEN Len(package_bytes)
                           ELSE offset + 5 + meta_len)
        package   == MetaLoads(meta_json)
        binary_part == Slice(package_bytes, offset + 5 + Len(meta_json),
                             Len(package_bytes))
    IN  IF magic_pos = -1
        THEN [err |-> "ValueError: Invalid file format", pages |-> <<>>]
        ELSE IF vbytes = <<>>
        THEN [err |-> "struct.error", pages |-> <<>>]
        ELSE IF ~VersionSupported(vbytes[1])
        THEN [err |-> "ValueError: Unsupported package version", pages |-> <<>>]
        ELSE IF Len(lbytes) # 4
        THEN [err |-> "struct.error", pages |-> <<>>]
        ELSE IF package.err # ""
        THEN [err |-> package.err, pages |-> <<>>]
        ELSE ExtractPages(package.pages, binary_part, 0)

----------------------------------------------------------------------------
(* Library functions the model does not compute.  SHA-256 and the Mersenne *)
(* Twister shuffle are fixed but unknown functions: the first evaluation   *)
(* of an argument may give any value of the range, every later evaluation  *)
(* of the same argument gives the same value again.                        *)

\* a digest with the given first four bytes and bytes 16..23
Digest(k, s8) ==
    k \o [i \in 1..12 |-> (17 * i) % 256] \o s8 \o [i \in 1..8 |-> (29 * i) % 256]

KeyPrefixSamples == { <<18, 52, 86, 120>>, <<255, 255, 255, 255>> }

\* seed_int = 123456, 1123456 (the same modulo 1000000), 2^64 - 1
SeedBytesSamples ==
    { <<0, 0, 0, 0, 0, 1, 226, 64>>, <<0, 0, 0, 0, 0, 17, 36, 128>>,
      <<255, 255, 255, 255, 255, 255, 255, 255>> }

DigestSamples == { Digest(k, s8) : k \in KeyPrefixSamples, s8 \in SeedBytesSamples }

\* hashlib.sha256(str.encode()).digest() = d is consistent with what is known
Sha256Is(str, d) ==
    /\ d \in DigestSamples
    /\ str \in DOMAIN sha256 => sha256[str] = d

Sha256Learn(str, d) == (str :> d) @@ sha256

\* generate_shuffle_indices(num_chunks, seed) = perm is consistent with what
\* is known; RandomState(seed) raises ValueError unless SeedOk(seed)
ShuffleIndicesIs(num_chunks, seed, perm) ==
    /\ perm \in Permutations0(num_chunks)
    /\ << num_chunks, seed >> \in DOMAIN mt19937 => mt19937[<< num_chunks, seed >>] = perm

Mt19937Learn(num_chunks, seed, perm) == (<< num_chunks, seed >> :> perm) @@ mt19937

Empty == [x \in {} |-> 0]

\* nothing stored, recorded or sent
NoEffects == storage = Empty /\ transfers = <<>> /\ outbox = <<>>

\* the locals L with the given ones assigned
Assign(locals) == locals @@ L

----------------------------------------------------------------------------
(* Inputs.                                                                 *)

\* The rendered page of h x w pixels: channels = 1 is a mode L image of
\* shape (h, w), channels = 3 a mode RGB image of shape (h, w, 3).  Pixel
\* (y, x) holds a gradient as in test_algo.py, spread over the byte range.
TestImage(h, w, channels) ==
    LET px(y, x, c) == ((37 * x) + (91 * y) + (113 * c) + 200) % 256
    IN  Array(IF channels = 1 THEN <<h, w>> ELSE <<h, w, channels>>,
              [i \in 1..(h * w * channels) |->
                  px((i - 1) \div (w * channels),
                     ((i - 1) \div channels) % w,
                     (i - 1) % channels)])

ImageSamples ==
    { TestImage(h, w, c) : h \in 0..MaxH, w \in 0..MaxW, c \in {1, 3} }

\* what datetime.utcnow() may return
TimestampSamples ==
    { DateTime(2024, 2, 29, 23, 59, 59, 0),
      DateTime(2024, 2, 29, 23, 59, 59, 120000),
      DateTime(2025, 11, 3, 8, 5, 0, 7) }

----------------------------------------------------------------------------
(* test_algo.py: test_algo_reproduction, statement by statement.           *)

AlgoInit ==
    /\ pc = "chunk"
    /\ \E img \in ImageSamples, ts \in TimestampSamples :
          L = [original_img |-> img,
               filename     |-> <<"t", ".", "j", "p", "g">>,
               timestamp    |-> ts]
    /\ sha256 = Empty
    /\ mt19937 = Empty
    /\ NoEffects

\* A. pp = PixelProcessor(chunk_size=32); chunks, metadata = pp.chunk_pixels(..)
AlgoChunk ==
    /\ pc = "chunk"
    /\ L' = Assign([chunks   |-> chunk_pixels(L.original_img, CHUNK_SIZE)[1],
                    metadata |-> chunk_pixels(L.original_img, CHUNK_SIZE)[2]])
    /\ pc' = "encryptor"
    /\ UNCHANGED << sha256, mt19937, storage, transfers, outbox >>

\* B. encryptor = DCKPESEncryptor(filename, timestamp); shuffle_seed = ...
AlgoEncryptor ==
    /\ pc = "encryptor"
    /\ \E d \in DigestSamples :
          LET u == unique_string(L.filename, L.timestamp)
              e == NewEncryptor(L.filename, L.timestamp, d)
          IN  /\ Sha256Is(u, d)
              /\ sha256' = Sha256Learn(u, d)
              /\ L' = Assign([encryptor |-> e, shuffle_seed |-> get_shuffle_seed(e)])
    /\ pc' = "shuffle"
    /\ UNCHANGED << mt19937, storage, transfers, outbox >>

\* C. shuffled_chunks, shuffle_indices = pp.shuffle_chunks(chunks, shuffle_seed)
AlgoShuffle ==
    /\ pc = "shuffle"
    /\ \E perm \in Permutations0(NumRows(L.chunks)) :
          /\ ShuffleIndicesIs(NumRows(L.chunks), L.shuffle_seed, perm)
          /\ mt19937' = Mt19937Learn(NumRows(L.chunks), L.shuffle_seed, perm)
          /\ L' = Assign([shuffled_chunks |-> shuffle_chunks(L.chunks, perm)[1],
                          shuffle_indices |-> shuffle_chunks(L.chunks, perm)[2]])
    /\ pc' = IF SeedOk(L.shuffle_seed) THEN "encrypt" ELSE "raised"
    /\ UNCHANGED << sha256, storage, transfers, outbox >>

\* D. encrypted_chunks = encryptor.encrypt_pixels(shuffled_chunks)
AlgoEncrypt ==
    /\ pc = "encrypt"
    /\ L' = Assign([encrypted_chunks |-> encrypt_pixels(L.encryptor, L.shuffled_chunks)])
    /\ pc' = "decryptor"
    /\ UNCHANGED << sha256, mt19937, storage, transfers, outbox >>

\* E. decryptor = DCKPESEncryptor(filename, timestamp)
AlgoDecryptor ==
    /\ pc = "decryptor"
    /\ \E d \in DigestSamples :
          LET u == unique_string(L.filename, L.timestamp)
          IN  /\ Sha256Is(u, d)
              /\ sha256' = Sha256Learn(u, d)
              /\ L' = Assign([decryptor |-> NewEncryptor(L.filename, L.timestamp, d)])
    /\ pc' = "decrypt"
    /\ UNCHANGED << mt19937, storage, transfers, outbox >>

\* F. decrypted_shuffled_chunks = decryptor.decrypt_pixels(encrypted_chunks)
AlgoDecrypt ==
    /\ pc = "decrypt"
    /\ L' = Assign([decrypted_shuffled_chunks |->
                        decrypt_pixels(L.decryptor, L.encrypted_chunks)])
    /\ pc' = "unshuffle"
    /\ UNCHANGED << sha256, mt19937, storage, transfers, outbox >>

\* G. unshuffled_chunks = pp.unshuffle_chunks(decrypted_shuffled_chunks, shuffle_indices)
AlgoUnshuffle ==
    /\ pc = "unshuffle"
    /\ L' = Assign([unshuffled_chunks |->
                        unshuffle_chunks(L.decrypted_shuffled_chunks, L.shuffle_indices)])
    /\ pc' = "unchunk"
    /\ UNCHANGED << sha256, mt19937, storage, transfers, outbox >>

\* H. reconstructed_img = pp.unchunk_pixels(unshuffled_chunks, metadata);
\*    recon_arr = np.array(reconstructed_img)
AlgoUnchunk ==
    /\ pc = "unchunk"
    /\ L' = Assign([recon_arr |->
                        image_to_array(unchunk_pixels(L.unshuffled_chunks, L.metadata))])
    /\ pc' = IF unchunk_ok(L.unshuffled_chunks, L.metadata) THEN "done" ELSE "raised"
    /\ UNCHANGED << sha256, mt19937, storage, transfers, outbox >>

AlgoNext ==
    \/ AlgoChunk \/ AlgoEncryptor \/ AlgoShuffle \/ AlgoEncrypt
    \/ AlgoDecryptor \/ AlgoDecrypt \/ AlgoUnshuffle \/ AlgoUnchunk

SpecAlgo == AlgoInit /\ [][AlgoNext]_vars

(* C2: chunking (chunk size 32), shuffling with the derived seed and       *)
(* encrypting, then decrypting with a fresh encryptor built from the same  *)
(* (filename, timestamp), unshuffling with the returned indices and        *)
(* unchunking, gives back the input array exactly; no step raises.         *)
C2_PipelineRoundTrip ==
    /\ pc # "raised"
    /\ pc = "done" => L.recon_arr = L.original_img

C2_Witness ==
    /\ pc = "done"
    /\ L.metadata.padding > 0
    /\ L.metadata.num_chunks >= 2
    /\ L.shuffle_indices # [i \in 1..Len(L.shuffle_indices) |-> i - 1]
    /\ L.encrypted_chunks # L.shuffled_chunks
    /\ L.recon_arr = L.original_img

(* C8: two encryptors built from the identical (filename, timestamp) hold  *)
(* the same key, chaos seed and shuffle seed base: the key is the first 16 *)
(* bytes of SHA-256 of 'filename|isoTimestamp', the chaos seed is          *)
(* 0.1 + 0.8 * ((bytes 16..23 as a big-endian integer) mod 10^6) / 10^6,   *)
(* and the shuffle seed base is the big-endian uint32 of key bytes 0..3.   *)
C8_KeyDerivationDeterministic ==
    pc \in {"decrypt", "unshuffle", "unchunk", "done"} =>
        LET u == L.filename \o <<"|">> \o isoformat(L.timestamp)
            e == L.encryptor
            d == L.decryptor
        IN  /\ u \in DOMAIN sha256
            /\ e.key = SubSeq(sha256[u], 1, 16)
            /\ d.key = e.key
            /\ d.chaos_seed = e.chaos_seed
            /\ e.chaos_seed =
                 1000000 + (8 * BytesMod(SubSeq(sha256[u], 17, 24), 1000000))
            /\ get_shuffle_seed(d) = get_shuffle_seed(e)
            /\ get_shuffle_seed(e) = L.shuffle_seed
            /\ L.shuffle_seed.hi = (sha256[u][1] * 256) + sha256[u][2]
            /\ L.shuffle_seed.lo = (sha256[u][3] * 256) + sha256[u][4]

C8_Witness ==
    /\ pc = "decrypt"
    /\ L.decryptor.key = L.encryptor.key
    /\ L.decryptor.timestamp.microsecond # 0
    /\ L.encryptor.chaos_seed = 5412920

----------------------------------------------------------------------------
(* PixelProcessor.chunk_pixels followed by unchunk_pixels, for every       *)
(* sampled image and chunk size, and for the 100 x 100 RGB image of        *)
(* test_algo.py with chunk size 32.                                        *)

ChunkSizeSamples == {1, 3, CHUNK_SIZE}

ChunkInit ==
    /\ pc = "chunk"
    /\ \/ \E img \in ImageSamples, cs \in ChunkSizeSamples :
             L = [image |-> img, chunk_size |-> cs]
       \/ L = [image |-> TestImage(100, 100, 3), chunk_size |-> CHUNK_SIZE]
    /\ sha256 = Empty
    /\ mt19937 = Empty
    /\ NoEffects

ChunkPixels ==
    /\ pc = "chunk"
    /\ L' = Assign([chunks   |-> chunk_pixels(L.image, L.chunk_size)[1],
                    metadata |-> chunk_pixels(L.image, L.chunk_size)[2]])
    /\ pc' = "unchunk"
    /\ UNCHANGED << sha256, mt19937, storage, transfers, outbox >>

UnchunkPixels ==
    /\ pc = "unchunk"
    /\ L' = Assign([restored |-> unchunk_pixels(L.chunks, L.metadata)])
    /\ pc' = IF unchunk_ok(L.chunks, L.metadata) THEN "done" ELSE "raised"
    /\ UNCHANGED << sha256, mt19937, storage, transfers, outbox >>

ChunkNext == ChunkPixels \/ UnchunkPixels

SpecChunk == ChunkInit /\ [][ChunkNext]_vars

(* C5: unchunk_pixels(chunk_pixels(x)), with the metadata chunk_pixels     *)
(* returned, is x again in shape and in every byte, also when the size of  *)
(* x is 0 or already a multiple of the chunk size; unchunk does not raise. *)
C5_UnchunkInvertsChunk ==
    /\ pc # "raised"
    /\ pc = "done" =>
          /\ image_to_array(L.restored).shape = L.image.shape
          /\ image_to_array(L.restored).data = L.image.data

C5_Witness ==
    /\ pc = "done"
    /\ L.metadata.padding = 0
    /\ L.metadata.num_chunks >= 2
    /\ L.chunk_size = CHUNK_SIZE
    /\ L.restored = L.image

(* C21: for every image of n bytes and chunk size c > 0, chunk_pixels      *)
(* records original_size = n, padding = (c - n mod c) mod c with           *)
(* 0 <= padding < c, num_chunks = (n + padding) / c, and returns           *)
(* num_chunks rows of exactly c bytes whose concatenation is the row-major *)
(* image bytes followed by padding zero bytes; n = 30000, c = 32 gives 938 *)
(* chunks and 16 padding bytes.                                            *)
C21_ChunkLayout ==
    pc \in { "unchunk", "done" } =>
        LET n == Len(L.image.data)
            c == L.chunk_size
            m == L.metadata
        IN  /\ m.original_size = n
            /\ m.original_shape = L.image.shape
            /\ m.chunk_size = c
            /\ m.padding = (c - (n % c)) % c
            /\ 0 <= m.padding /\ m.padding < c
            /\ m.num_chunks * c = n + m.padding
            /\ L.chunks.shape = << m.num_chunks, c >>
            /\ Len(L.chunks.data) = m.num_chunks * c
            /\ SubSeq(L.chunks.data, 1, n) = L.image.data
            /\ \A i \in (n + 1)..(n + m.padding) : L.chunks.data[i] = 0
            /\ (n = 30000 /\ c = 32) => (m.num_chunks = 938 /\ m.padding = 16)

C21_Witness ==
    /\ pc = "unchunk"
    /\ Len(L.image.data) = 30000
    /\ L.chunks.shape = << 938, 32 >>
    /\ L.metadata.padding = 16
    /\ L.chunks.data[30000] # 0
    /\ L.chunks.data[30016] = 0

----------------------------------------------------------------------------
(* PixelProcessor.shuffle_chunks followed by unshuffle_chunks, for every   *)
(* sampled chunk matrix, seed and permutation the generator may return.    *)

\* a matrix of n rows of c bytes; rows 0 and 2 are equal when dup
ChunkMatrix(n, c, dup) ==
    Array(<<n, c>>,
          [j \in 1..(n * c) |->
              LET r == (j - 1) \div c
                  q == IF dup /\ r = 2 THEN 0 ELSE r
              IN  ((53 * q) + (7 * ((j - 1) % c)) + 130) % 256])

ChunkMatrixSamples ==
    { ChunkMatrix(n, c, dup) : n \in 0..MaxChunks, c \in {1, 2, CHUNK_SIZE},
                               dup \in BOOLEAN }

\* 0, 42, 65536 and 2^32 - 1
SeedSamples == { Wide(0, 0), Wide(0, 42), Wide(1, 0), Wide(65535, 65535) }

ShuffleInit ==
    /\ pc = "shuffle"
    /\ \E C \in ChunkMatrixSamples, seed \in SeedSamples :
          L = [chunks |-> C, seed |-> seed]
    /\ sha256 = Empty
    /\ mt19937 = Empty
    /\ NoEffects

ShuffleChunks ==
    /\ pc = "shuffle"
    /\ \E perm \in Permutations0(NumRows(L.chunks)) :
          /\ ShuffleIndicesIs(NumRows(L.chunks), L.seed, perm)
          /\ mt19937' = Mt19937Learn(NumRows(L.chunks), L.seed, perm)
          /\ L' = Assign([shuffled_chunks |-> shuffle_chunks(L.chunks, perm)[1],
                          shuffle_indices |-> shuffle_chunks(L.chunks, perm)[2]])
    /\ pc' = IF SeedOk(L.seed) THEN "unshuffle" ELSE "raised"
    /\ UNCHANGED << sha256, storage, transfers, outbox >>

UnshuffleChunks ==
    /\ pc = "unshuffle"
    /\ L' = Assign([restored |-> unshuffle_chunks(L.shuffled_chunks, L.shuffle_indices)])
    /\ pc' = "done"
    /\ UNCHANGED << sha256, mt19937, storage, transfers, outbox >>

ShuffleNext == ShuffleChunks \/ UnshuffleChunks

SpecShuffle == ShuffleInit /\ [][ShuffleNext]_vars

\* row i (0-based) of a 2-D array
Row(a, i) == SubSeq(a.data, (i * a.shape[2]) + 1, (i + 1) * a.shape[2])

(* C4: shuffle_chunks(C, seed) returns the rows shuffled[i] = C[perm[i]]   *)
(* for a permutation perm of 0..N-1 (N >= 0), and unshuffle_chunks, which  *)
(* applies argsort(perm), restores C in its original row order.            *)
C4_UnshuffleInvertsShuffle ==
    /\ pc \in {"unshuffle", "done"} =>
          LET N == NumRows(L.chunks)
          IN  /\ L.shuffle_indices \in Permutations0(N)
              /\ L.shuffled_chunks.shape = L.chunks.shape
              /\ \A i \in 0..(N - 1) :
                    Row(L.shuffled_chunks, i) = Row(L.chunks, L.shuffle_indices[i + 1])
    /\ pc = "done" => L.restored = L.chunks

C4_Witness ==
    /\ pc = "done"
    /\ L.shuffle_indices = <<1, 2, 0>>
    /\ L.shuffled_chunks # L.chunks
    /\ L.restored = L.chunks

----------------------------------------------------------------------------
(* The cipher alone: encrypt_pixels' body followed by decrypt_pixels' body *)
(* for every sampled buffer B and every sampled keystream S of its length. *)

ByteSamples == {0, 129, 255}

BufferSamples ==
    UNION { [1..n -> ByteSamples] : n \in 0..MaxBufLen }

\* the shapes a buffer of n bytes is given: 1-D, and a column of n rows
ShapesOf(n) == { <<n>>, <<n, 1>> }

CipherInit ==
    /\ pc = "encrypt"
    /\ \E B \in BufferSamples :
          \E S \in [1..Len(B) -> ByteSamples], shape \in ShapesOf(Len(B)) :
              L = [B |-> Array(shape, B), S |-> S]
    /\ sha256 = Empty
    /\ mt19937 = Empty
    /\ NoEffects

CipherEncrypt ==
    /\ pc = "encrypt"
    /\ L' = Assign([encrypted |-> cipher_encrypt(L.B, L.S)])
    /\ pc' = "decrypt"
    /\ UNCHANGED << sha256, mt19937, storage, transfers, outbox >>

CipherDecrypt ==
    /\ pc = "decrypt"
    /\ L' = Assign([decrypted |-> cipher_decrypt(L.encrypted, L.S)])
    /\ pc' = "done"
    /\ UNCHANGED << sha256, mt19937, storage, transfers, outbox >>

\* faulty variant: the changed buffer put through the forward diffusion
CipherTamperForward ==
    /\ pc = "done"
    /\ \E j \in 1..Len(L.encrypted.data), mask \in { 1, 255 } :
          LET tampered == [L.encrypted EXCEPT !.data[j] = Xor(@, mask)]
          IN  L' = Assign([j |-> j, tampered |-> tampered,
                           decrypted_tampered |-> cipher_encrypt(tampered, L.S)])
    /\ pc' = "tampered"
    /\ UNCHANGED << sha256, mt19937, storage, transfers, outbox >>

\* decrypt_pixels on the ciphertext with the byte at flat index j - 1 changed
CipherTamper ==
    /\ pc = "done"
    /\ \E j \in 1..Len(L.encrypted.data), mask \in { 1, 255 } :
          LET tampered == [L.encrypted EXCEPT !.data[j] = Xor(@, mask)]
          IN  L' = Assign([j |-> j, tampered |-> tampered,
                           decrypted_tampered |-> cipher_decrypt(tampered, L.S)])
    /\ pc' = "tampered"
    /\ UNCHANGED << sha256, mt19937, storage, transfers, outbox >>

CipherNext == CipherEncrypt \/ CipherDecrypt \/ CipherTamper

SpecCipher == CipherInit /\ [][CipherNext]_vars

(* C3: for every byte buffer B (of any length, 0 and 1 included) and every *)
(* keystream S of the same length, cipher-decrypt of cipher-encrypt of B   *)
(* is B, with the original shape.                                          *)
C3_DecryptInvertsEncrypt ==
    pc = "done" =>
        /\ L.decrypted.data = L.B.data
        /\ L.decrypted.shape = L.B.shape
        /\ L.encrypted.shape = L.B.shape

RECURSIVE XorUpTo(_, _)
\* seq[1] ^ ... ^ seq[i]
XorUpTo(seq, i) == IF i = 0 THEN 0 ELSE Xor(XorUpTo(seq, i - 1), seq[i])

(* C22: encrypt_pixels computes, over the whole flattened page (the chain  *)
(* runs across chunk boundaries), out[0] = data[0] XOR ks[0] and           *)
(* out[i] = (data[i] XOR ks[i]) XOR out[i-1] for i >= 1, so out[i] is the  *)
(* XOR of all (data[j] XOR ks[j]) for j <= i, and returns it in the input  *)
(* shape.                                                                  *)
C22_RunningXor ==
    pc \in { "decrypt", "done" } =>
        LET out          == L.encrypted.data
            intermediate == [i \in 1..Len(L.B.data) |-> Xor(L.B.data[i], L.S[i])]
        IN  /\ L.encrypted.shape = L.B.shape
            /\ Len(out) = Len(L.B.data)
            /\ Len(out) >= 1 => out[1] = intermediate[1]
            /\ \A i \in 2..Len(out) : out[i] = Xor(intermediate[i], out[i - 1])
            /\ \A i \in 1..Len(out) : out[i] = XorUpTo(intermediate, i)

C22_Witness ==
    /\ pc = "decrypt"
    /\ L.B.shape = <<3, 1>>
    /\ L.B.data = <<129, 255, 0>>
    /\ L.S = <<255, 0, 129>>
    /\ L.encrypted.data = <<126, 129, 0>>

(* C29: tampering is local under cipher-decrypt: for every ciphertext      *)
(* buffer and keystream, changing the single ciphertext byte at flat index *)
(* j changes the decrypt_pixels output at indices j and j+1 only (only at  *)
(* j when j is the last index); every other output byte is unchanged and   *)
(* no error is raised.                                                     *)
C29_TamperLocal ==
    pc = "tampered" =>
        LET before == L.decrypted.data
            after  == L.decrypted_tampered.data
            n      == Len(before)
        IN  /\ Len(after) = n
            /\ L.decrypted_tampered.shape = L.decrypted.shape
            /\ L.tampered.data[L.j] # L.encrypted.data[L.j]
            /\ \A i \in 1..n :
                  after[i] # before[i] <=> (i = L.j \/ i = L.j + 1)

C29_Witness ==
    /\ pc = "tampered"
    /\ Len(L.decrypted.data) = 3
    /\ L.j = 2
    /\ L.decrypted_tampered.data[1] = L.decrypted.data[1]
    /\ L.decrypted_tampered.data[2] # L.decrypted.data[2]
    /\ L.decrypted_tampered.data[3] # L.decrypted.data[3]

C3_Witness ==
    /\ pc = "done"
    /\ Len(L.B.data) >= 3
    /\ L.B.shape = << Len(L.B.data), 1 >>
    /\ L.encrypted.data # L.B.data
    /\ L.encrypted.data # xor_bytes(L.B.data, L.S)
    /\ L.decrypted = L.B

----------------------------------------------------------------------------
(* The package codec: create_encryption_package on the pages of a          *)
(* document with a prefix, then extract_encryption_package; and            *)
(* extract_encryption_package on a received buffer of any content.         *)

\* what encrypt_pdf collects for one page: the encrypted chunks, the chunk
\* metadata and the shuffle indices
PageOf(img, perm, chaos_seed) ==
    LET ch == chunk_pixels(img, CHUNK_SIZE)
    IN  [encrypted |-> cipher_encrypt(shuffle_chunks(ch[1], perm)[1],
                          generate_chaos_sequence(chaos_seed, Len(ch[1].data))),
         metadata  |-> ch[2],
         shuffle_indices |-> perm]

CodecImages == { TestImage(1, 1, 3), TestImage(3, 4, 3), TestImage(4, 8, 1) }

PageSamples ==
    UNION { { PageOf(img, perm, 5412920) :
                perm \in Permutations0(chunk_pixels(img, CHUNK_SIZE)[2].num_chunks) } :
            img \in CodecImages }

DocumentSamples == UNION { [1..n -> PageSamples] : n \in 0..MaxPages }

\* prefixes: none, the start of a PNG file, parts of the magic token, the
\* token itself, the token with a version byte, and a whole empty package
PrefixSamples ==
    { <<>>, <<137, 80, 78, 71>>, <<65>>, <<65, 65>>, <<65, 65, 82, 84, 72>>,
      <<65, 82, 84, 72, 65>>, MAGIC, MAGIC \o <<2>>,
      <<7>> \o MAGIC \o <<1, 0, 0, 0, 7, 123, 49, 44, 48, 44, 48, 125>> }

\* received buffers: short ones without the token, and the token after a
\* prefix, followed by a version byte or by nothing, and by a rest
RawBufferSamples ==
    { <<>>, <<65>>, <<65, 65, 82, 84, 72>>, <<1, 0, 0, 0, 0>>,
      <<65, 65, 82, 84, 72, 66, 1>>, <<65, 82, 84, 72, 65, 65>> }
    \cup { pre \o MAGIC \o ver \o rest :
             pre  \in { <<>>, <<65>>, <<65, 65, 82, 84, 72>>, <<137, 80>> },
             ver  \in { <<>>, <<0>>, <<1>>, <<2>>, <<65>>, <<255>> },
             rest \in { <<>>, <<0, 0>>,
                        <<0, 0, 0, 7, 123, 49, 44, 48, 44, 48, 125>> } }

\* where a package with a prefix of p bytes is cut short: in the header, in
\* the metadata, and up to MaxCut bytes before its end
CutSamples(pkg, p) ==
    LET m == UnpackU32BE(SubSeq(pkg, p + 8, p + 11))
    IN  { k \in { p + 6, p + 7, p + 9, p + 11, p + 12, p + 10 + m, p + 11 + m }
                 \cup { Len(pkg) - d : d \in 1..MaxCut } :
            k >= p + 6 /\ k < Len(pkg) }

\* files that lost their end on the way
DamagedPackageSamples ==
    UNION { { SubSeq(create_encryption_package(
                         [i \in 1..Len(doc) |-> doc[i].encrypted],
                         [i \in 1..Len(doc) |-> doc[i].metadata],
                         [i \in 1..Len(doc) |-> doc[i].shuffle_indices], P), 1, k) :
                k \in CutSamples(create_encryption_package(
                         [i \in 1..Len(doc) |-> doc[i].encrypted],
                         [i \in 1..Len(doc) |-> doc[i].metadata],
                         [i \in 1..Len(doc) |-> doc[i].shuffle_indices], P), Len(P)) } :
            doc \in DocumentSamples, P \in { <<>>, <<137, 80, 78, 71>> } }

\* a header that declares more metadata bytes than the buffer holds
OverdeclaredSamples ==
    { MAGIC \o <<1, 0, 0, 0, 9, 123, 49, 44, 48, 44, 48, 125>> }

CodecInit ==
    /\ \/ /\ pc = "encode"
          /\ \E doc \in DocumentSamples, P \in PrefixSamples :
                L = [encrypted_images     |-> [i \in 1..Len(doc) |-> doc[i].encrypted],
                     metadata_list        |-> [i \in 1..Len(doc) |-> doc[i].metadata],
                     shuffle_indices_list |-> [i \in 1..Len(doc) |-> doc[i].shuffle_indices],
                     prefix_bytes         |-> P]
       \/ /\ pc = "decode"
          /\ \E buf \in RawBufferSamples \cup DamagedPackageSamples
                                         \cup OverdeclaredSamples :
                L = [package_bytes |-> buf]
    /\ sha256 = Empty
    /\ mt19937 = Empty
    /\ NoEffects

CodecEncode ==
    /\ pc = "encode"
    /\ L' = Assign([package_bytes |->
                      create_encryption_package(L.encrypted_images, L.metadata_list,
                                                L.shuffle_indices_list, L.prefix_bytes)])
    /\ pc' = "decode"
    /\ UNCHANGED << sha256, mt19937, storage, transfers, outbox >>

CodecDecode ==
    /\ pc = "decode"
    /\ L' = Assign([package |-> extract_encryption_package(L.package_bytes)])
    /\ pc' = "done"
    /\ UNCHANGED << sha256, mt19937, storage, transfers, outbox >>

CodecNext == CodecEncode \/ CodecDecode

SpecCodec == CodecInit /\ [][CodecNext]_vars

\* the buffer was produced by CodecEncode
Encoded == "prefix_bytes" \in DOMAIN L

\* the decoded pages are the encoded ones: ciphertext (shape and bytes),
\* permutation and chunk metadata, page by page in order
SamePages ==
    /\ L.package.err = ""
    /\ Len(L.package.pages) = Len(L.encrypted_images)
    /\ \A i \in 1..Len(L.encrypted_images) :
          /\ L.package.pages[i].image_data = L.encrypted_images[i]
          /\ L.package.pages[i].shuffle_indices = L.shuffle_indices_list[i]
          /\ L.package.pages[i].metadata = L.metadata_list[i]

\* token occurs in buf at some index
Contains(buf, token) == \E i \in 0..Len(buf) : Occurs(buf, token, i)

\* no occurrence of the magic token begins inside the prefix, not even one
\* that runs over into the header
NoMagicBeforeHeader(P) ==
    \A i \in 0..(Len(P) - 1) : ~Occurs(P \o MAGIC, MAGIC, i)

RECURSIVE PagesPayload(_, _, _)
\* for the first n pages in order: the ciphertext bytes, then the
\* permutation as 4-byte integers
PagesPayload(images, perms, n) ==
    IF n = 0 THEN <<>>
    ELSE PagesPayload(images, perms, n - 1) \o images[n].data
         \o [k \in 1..(4 * Len(perms[n])) |->
                IF k % 4 = 1 THEN perms[n][(k + 3) \div 4] ELSE 0]

RECURSIVE DeclaredSizes(_, _)
\* the sum of img_size + shuffle_size over the first n declared pages
DeclaredSizes(pages, n) ==
    IF n = 0 THEN 0
    ELSE DeclaredSizes(pages, n - 1) + pages[n].img_size + pages[n].shuffle_size

(* C23: the bytes returned by create_encryption_package are exactly        *)
(* prefix ++ 'AARTHA' ++ one byte 0x01 ++ big-endian u32 of the metadata   *)
(* byte length ++ metadata ++ payload, where the payload is, for each page *)
(* in order, the ciphertext bytes followed by the permutation bytes, and   *)
(* the payload length equals the sum over pages of the declared            *)
(* img_size + shuffle_size (img_size = num_chunks * chunk_size,            *)
(* shuffle_size = 4 * num_chunks).                                         *)
C23_PackageLayout ==
    (pc \in { "decode", "done" } /\ Encoded) =>
        LET pkg      == L.package_bytes
            p        == Len(L.prefix_bytes)
            n        == Len(L.encrypted_images)
            metaLen  == (pkg[p + 8] * 16777216) + (pkg[p + 9] * 65536)
                        + (pkg[p + 10] * 256) + pkg[p + 11]
            meta     == SubSeq(pkg, p + 12, p + 11 + metaLen)
            payload  == SubSeq(pkg, p + 12 + metaLen, Len(pkg))
            declared == MetaLoads(meta)
        IN  /\ Len(pkg) >= p + 11
            /\ SubSeq(pkg, 1, p) = L.prefix_bytes
            /\ SubSeq(pkg, p + 1, p + 6) = <<65, 65, 82, 84, 72, 65>>
            /\ pkg[p + 7] = 1
            /\ pkg[p + 8] < 128
            /\ metaLen >= 2 /\ p + 11 + metaLen <= Len(pkg)
            /\ meta[1] = 123 /\ meta[metaLen] = 125
            /\ declared.err = ""
            /\ declared.num_pages = n /\ Len(declared.pages) = n
            /\ \A i \in 1..n :
                  /\ declared.pages[i].metadata = L.metadata_list[i]
                  /\ declared.pages[i].img_size =
                        L.metadata_list[i].num_chunks * L.metadata_list[i].chunk_size
                  /\ declared.pages[i].shuffle_size = 4 * L.metadata_list[i].num_chunks
            /\ payload = PagesPayload(L.encrypted_images, L.shuffle_indices_list, n)
            /\ Len(payload) = DeclaredSizes(declared.pages, n)

C23_Witness ==
    /\ pc = "decode" /\ Encoded
    /\ L.prefix_bytes = <<137, 80, 78, 71>>
    /\ Len(L.encrypted_images) = 2
    /\ L.metadata_list[1].num_chunks = 1
    /\ L.shuffle_indices_list[2] = <<1, 0>>
    /\ Len(L.package_bytes) > 4 + 11 + 96 + 12

(* C6, as claimed: for every list of pages and every prefix P that does    *)
(* not contain the magic token, decoding the encoded package returns the   *)
(* encoded pages.                                                          *)
C6_AsClaimed ==
    (pc = "done" /\ Encoded /\ ~Contains(L.prefix_bytes, MAGIC)) => SamePages

(* C6, amended: for every list of pages and every prefix P such that no    *)
(* occurrence of the magic token begins before the real header (P neither  *)
(* contains the token nor ends with 'AARTH', which the header's first 'A'  *)
(* would complete), decoding the encoded package returns, for each page in *)
(* order, the same ciphertext array, permutation and chunk metadata.       *)
C6_DecodeInvertsEncode ==
    (pc = "done" /\ Encoded /\ NoMagicBeforeHeader(L.prefix_bytes)) => SamePages

C6_Witness ==
    /\ pc = "done" /\ Encoded
    /\ L.prefix_bytes = <<65, 82, 84, 72, 65>>
    /\ Len(L.encrypted_images) = 2
    /\ L.shuffle_indices_list[2] = <<1, 0>>
    /\ L.metadata_list[1] # L.metadata_list[2]
    /\ SamePages

\* what decoding the same pages encoded without a prefix returns
BareDecode ==
    extract_encryption_package(
        create_encryption_package(L.encrypted_images, L.metadata_list,
                                  L.shuffle_indices_list, <<>>))

(* C7, as claimed: for every byte string P placed before an encoded        *)
(* package, decoding P ++ encoded returns the pages decoding encoded does. *)
C7_AsClaimed ==
    (pc = "done" /\ Encoded) =>
        /\ L.package_bytes =
             L.prefix_bytes \o create_encryption_package(L.encrypted_images,
                                  L.metadata_list, L.shuffle_indices_list, <<>>)
        /\ L.package = BareDecode

(* C7, amended: for every byte string P placed before an encoded package   *)
(* such that no occurrence of the magic token begins inside P, decoding    *)
(* P ++ encoded finds the package header at offset len(P) and returns the  *)
(* pages decoding encoded returns.                                         *)
C7_PrefixTolerated ==
    (pc = "done" /\ Encoded /\ NoMagicBeforeHeader(L.prefix_bytes)) =>
        /\ L.package_bytes =
             L.prefix_bytes \o create_encryption_package(L.encrypted_images,
                                  L.metadata_list, L.shuffle_indices_list, <<>>)
        /\ L.package = BareDecode
        /\ L.package.err = ""

C7_Witness ==
    /\ pc = "done" /\ Encoded
    /\ L.prefix_bytes = <<137, 80, 78, 71>>
    /\ Len(L.encrypted_images) >= 1
    /\ L.package = BareDecode
    /\ L.package.err = ""

(* C10: extract_encryption_package raises the invalid-format error on      *)
(* every buffer that does not contain the magic token, and the             *)
(* unsupported-version error on every buffer whose byte after the first    *)
(* magic token is not 1; in both cases no package is returned.             *)
C10_FormatAndVersionErrors ==
    pc = "done" =>
        LET buf == L.package_bytes
            at(i) == Occurs(buf, MAGIC, i) /\ \A j \in 0..(i - 1) : ~Occurs(buf, MAGIC, j)
        IN  /\ ~Contains(buf, MAGIC) =>
                  L.package = [err |-> "ValueError: Invalid file format", pages |-> <<>>]
            /\ \A i \in 0..Len(buf) :
                  (at(i) /\ i + 7 <= Len(buf) /\ buf[i + 7] # 1) =>
                      L.package = [err   |-> "ValueError: Unsupported package version",
                                   pages |-> <<>>]

C10_Witness ==
    /\ pc = "done"
    /\ L.package_bytes = <<137, 80>> \o MAGIC \o <<2>>
                         \o <<0, 0, 0, 7, 123, 49, 44, 48, 44, 48, 125>>
    /\ L.package.err = "ValueError: Unsupported package version"

----------------------------------------------------------------------------
(* check_key_consistency.py: the key string built on the encryption side,  *)
(* split and parsed as on the decryption side, and the two derivations     *)
(* compared. The filename and the clock reading are inputs.                *)

\* "t.pdf", "a|b.pdf", "a|2024-02-29"
FilenameSamples ==
    { <<"t", ".", "p", "d", "f">>,
      <<"a", "|", "b", ".", "p", "d", "f">>,
      <<"a", "|", "2", "0", "2", "4", "-", "0", "2", "-", "2", "9">> }

KeyInit ==
    /\ pc = "key_string"
    /\ \E f \in FilenameSamples, ts \in TimestampSamples :
          L = [filename |-> f, ts_orig |-> ts]
    /\ sha256 = Empty
    /\ mt19937 = Empty
    /\ NoEffects

\* 1. key_string = f"{filename}|{ts_orig.isoformat()}"
KeyString ==
    /\ pc = "key_string"
    /\ L' = Assign([key_string |-> L.filename \o <<"|">> \o isoformat(L.ts_orig)])
    /\ pc' = "enc"
    /\ UNCHANGED << sha256, mt19937, storage, transfers, outbox >>

\* 2. enc = DCKPESEncryptor(filename, ts_orig)
KeyEnc ==
    /\ pc = "enc"
    /\ \E d \in DigestSamples :
          LET u == unique_string(L.filename, L.ts_orig)
          IN  /\ Sha256Is(u, d)
              /\ sha256' = Sha256Learn(u, d)
              /\ L' = Assign([enc |-> NewEncryptor(L.filename, L.ts_orig, d)])
    /\ pc' = "parse"
    /\ UNCHANGED << mt19937, storage, transfers, outbox >>

\* 3. parts = key_string.split('|'); f_parsed = parts[0];
\*    ts_parsed = datetime.fromisoformat(parts[1]); any exception: return
KeyParse ==
    /\ pc = "parse"
    /\ LET parts == Split(L.key_string, "|")
       IN  IF Len(parts) >= 2 /\ fromisoformat_ok(parts[2])
           THEN /\ L' = Assign([f_parsed  |-> parts[1],
                                ts_parsed |-> fromisoformat(parts[2])])
                /\ pc' = "dec"
           ELSE /\ L' = L
                /\ pc' = "parsing_failed"
    /\ UNCHANGED << sha256, mt19937, storage, transfers, outbox >>

\* 4. dec = DCKPESEncryptor(f_parsed, ts_parsed)
KeyDec ==
    /\ pc = "dec"
    /\ \E d \in DigestSamples :
          LET u == unique_string(L.f_parsed, L.ts_parsed)
          IN  /\ Sha256Is(u, d)
              /\ sha256' = Sha256Learn(u, d)
              /\ L' = Assign([dec |-> NewEncryptor(L.f_parsed, L.ts_parsed, d)])
    /\ pc' = "compare"
    /\ UNCHANGED << mt19937, storage, transfers, outbox >>

\* the two comparisons printed at the end
KeyCompare ==
    /\ pc = "compare"
    /\ L' = Assign([keys_match |-> (L.enc.key = L.dec.key
                                    /\ L.enc.chaos_seed = L.dec.chaos_seed),
                    ts_identical |-> (isoformat(L.ts_orig) = isoformat(L.ts_parsed))])
    /\ pc' = "done"
    /\ UNCHANGED << sha256, mt19937, storage, transfers, outbox >>

KeyNext == KeyString \/ KeyEnc \/ KeyParse \/ KeyDec \/ KeyCompare

SpecKey == KeyInit /\ [][KeyNext]_vars

(* C9: for every filename and encryption timestamp, splitting the key      *)
(* string on '|', parsing the timestamp part back and deriving key         *)
(* material from the parsed pair yields the key and chaos seed of the      *)
(* encrypt-side derivation, and the re-serialized timestamp string is the  *)
(* original one.                                                           *)
C9_KeyStringRoundTrip ==
    /\ pc # "parsing_failed"
    /\ pc = "done" => (L.keys_match /\ L.ts_identical)

\* for filenames without '|' the derivations do agree
C9_PlainFilenameAgrees ==
    (pc = "done" /\ L.filename = <<"t", ".", "p", "d", "f">>)
        => (L.keys_match /\ L.ts_identical /\ L.f_parsed = L.filename
            /\ L.ts_parsed = L.ts_orig)

----------------------------------------------------------------------------
(* EncryptionOrchestrator: one encrypt_pdf request, then decrypt_pdf of    *)
(* the file it wrote with the key it returned. L holds the locals of the   *)
(* running call; when encrypt_pdf returns, its frame is kept in L.enc.     *)
(* The previews (lines 90-98, 103-111, 121, 127) are built under           *)
(* try/except and only end up in the result; they are left out.            *)

\* rendered pages are RGB
OrchImages == { TestImage(1, 1, 3), TestImage(3, 4, 3) }

\* what pdf_to_images returns for the uploaded bytes
RenderedSamples == UNION { [1..n -> OrchImages] : n \in 0..MaxPages }

\* secrets.token_hex(8)
TokenSamples == { "encrypted_0a1b2c3d4e5f6071.png" }

\* preview_img.save(buffered, format="PNG"): the PNG signature followed by
\* the image data; incompressible pixel bytes are stored as they are, so
\* the file can carry any byte string, the magic token included
PngSamples ==
    { <<137, 80, 78, 71, 13, 10, 26, 10>>,
      <<137, 80, 78, 71, 13, 10, 26, 10>> \o MAGIC \o <<2, 0>> }

OrchInit ==
    /\ pc = "encrypt_pdf"
    /\ \E doc \in RenderedSamples, f \in FilenameSamples, send \in BOOLEAN,
          debug \in BOOLEAN :
          L = [pdf_bytes         |-> doc,
               original_filename |-> f,
               sender_email      |-> "s@x",
               receiver_email    |-> "r@x",
               send_email        |-> send,
               DEBUG             |-> debug]
    /\ sha256 = Empty
    /\ mt19937 = Empty
    /\ NoEffects

\* the call raises: nothing is returned
Raise(error) == L' = Assign([error |-> error])

\* lines 71-75: timestamp = datetime.utcnow(); encryptor; shuffle_seed
EncStart ==
    /\ pc = "encrypt_pdf"
    /\ \E ts \in TimestampSamples, d \in DigestSamples :
          LET u == unique_string(L.original_filename, ts)
              e == NewEncryptor(L.original_filename, ts, d)
          IN  /\ Sha256Is(u, d)
              /\ sha256' = Sha256Learn(u, d)
              /\ L' = Assign([timestamp    |-> ts,
                              encryptor    |-> e,
                              shuffle_seed |-> get_shuffle_seed(e)])
    /\ pc' = "render"
    /\ UNCHANGED << mt19937, storage, transfers, outbox >>

\* lines 78-86: images = pdf_to_images(pdf_bytes=pdf_bytes), which raises on
\* bytes poppler cannot read
EncRender ==
    /\ pc = "render"
    /\ \/ /\ L' = Assign([images               |-> L.pdf_bytes,
                          num_pages            |-> Len(L.pdf_bytes),
                          encrypted_images     |-> <<>>,
                          metadata_list        |-> <<>>,
                          shuffle_indices_list |-> <<>>,
                          page_num             |-> 0])
          /\ pc' = "page"
       \/ /\ Raise("PDFPageCountError")
          /\ pc' = "failed"
    /\ UNCHANGED << sha256, mt19937, storage, transfers, outbox >>

\* lines 89-133, one iteration of the loop: chunk, shuffle with
\* shuffle_seed + page_num, encrypt, append
EncPage ==
    /\ pc = "page"
    /\ L.page_num < Len(L.images)
    /\ LET image  == L.images[L.page_num + 1]
           ch     == chunk_pixels(image, CHUNK_SIZE)
           seed   == WideAdd(L.shuffle_seed, L.page_num)
           n      == NumRows(ch[1])
       IN  IF ~SeedOk(seed)
           THEN /\ Raise("ValueError: Seed must be between 0 and 2**32 - 1")
                /\ pc' = "failed"
                /\ UNCHANGED mt19937
           ELSE \E perm \in Permutations0(n) :
                   /\ ShuffleIndicesIs(n, seed, perm)
                   /\ mt19937' = Mt19937Learn(n, seed, perm)
                   /\ L' = Assign(
                        [encrypted_images |->
                            Append(L.encrypted_images,
                                   encrypt_pixels(L.encryptor,
                                                  shuffle_chunks(ch[1], perm)[1])),
                         metadata_list |-> Append(L.metadata_list, ch[2]),
                         shuffle_indices_list |->
                            Append(L.shuffle_indices_list,
                                   shuffle_chunks(ch[1], perm)[2]),
                         page_num |-> L.page_num + 1])
                   /\ pc' = "page"
    /\ UNCHANGED << sha256, storage, transfers, outbox >>

\* lines 136-151, after the loop: the first page's encrypted chunks put
\* back together and saved as PNG; any exception leaves prefix_bytes = b''
EncPrefix ==
    /\ pc = "page"
    /\ L.page_num = Len(L.images)
    /\ IF /\ Len(L.encrypted_images) > 0
          /\ unchunk_ok(L.encrypted_images[1], L.metadata_list[1])
       THEN \E png \in PngSamples : L' = Assign([prefix_bytes |-> png])
       ELSE L' = Assign([prefix_bytes |-> <<>>])
    /\ pc' = "package"
    /\ UNCHANGED << sha256, mt19937, storage, transfers, outbox >>

\* lines 154-162
EncPackage ==
    /\ pc = "package"
    /\ L' = Assign(
          [decryption_key |-> L.original_filename \o <<"|">> \o isoformat(L.timestamp),
           package_bytes  |-> create_encryption_package(L.encrypted_images,
                                  L.metadata_list, L.shuffle_indices_list,
                                  L.prefix_bytes)])
    /\ pc' = "write"
    /\ UNCHANGED << sha256, mt19937, storage, transfers, outbox >>

\* lines 165-171: open(encrypted_path, 'wb') truncates or creates the file,
\* f.write fills it; an OSError in between leaves what was written so far,
\* an OSError from makedirs or open leaves no file
EncWrite ==
    /\ pc = "write"
    /\ \E name \in TokenSamples :
          \/ /\ storage' = (name :> L.package_bytes) @@ storage
             /\ L' = Assign([encrypted_filename |-> name])
             /\ pc' = "record"
          \/ /\ \E k \in { 0, Len(L.package_bytes) \div 2 } :
                   storage' = (name :> SubSeq(L.package_bytes, 1, k)) @@ storage
             /\ Raise("OSError")
             /\ pc' = "failed"
          \/ /\ storage' = storage
             /\ Raise("OSError")
             /\ pc' = "failed"
    /\ UNCHANGED << sha256, mt19937, transfers, outbox >>

\* lines 174-179: EncryptionTransfer.objects.create(...)
EncRecord ==
    /\ pc = "record"
    /\ \/ /\ transfers' = Append(transfers,
                              [id                 |-> Len(transfers) + 1,
                               sender_email       |-> L.sender_email,
                               receiver_email     |-> L.receiver_email,
                               original_filename  |-> L.original_filename,
                               encrypted_filename |-> L.encrypted_filename])
          /\ L' = Assign([transfer_record |-> Len(transfers) + 1])
          /\ pc' = "notify"
       \/ /\ Raise("DatabaseError")
          /\ pc' = "failed"
          /\ UNCHANGED transfers
    /\ UNCHANGED << sha256, mt19937, storage, outbox >>

\* faulty variant: the mail sent whether or not send_email was asked for
EncNotifyUnrequested ==
    /\ pc = "notify"
    /\ outbox' = Append(outbox,
                        [to             |-> L.receiver_email,
                         decryption_key |-> L.decryption_key,
                         attachment     |-> storage[L.encrypted_filename]])
    /\ L' = Assign([email_sent |-> TRUE])
    /\ pc' = "return"
    /\ UNCHANGED << sha256, mt19937, storage, transfers >>

\* lines 182-195 and send_encrypted_file: the mail carries the key and the
\* file read back from encrypted_path; a failure to send is caught there
\* and reported as settings.DEBUG, a MemoryError on reading the file as False
EncNotify ==
    /\ pc = "notify"
    /\ IF L.send_email
       THEN \/ /\ outbox' = Append(outbox,
                                [to             |-> L.receiver_email,
                                 decryption_key |-> L.decryption_key,
                                 attachment     |-> storage[L.encrypted_filename]])
               /\ L' = Assign([email_sent |-> TRUE])
            \/ /\ outbox' = outbox
               /\ L' = Assign([email_sent |-> L.DEBUG])
            \/ /\ outbox' = outbox
               /\ L' = Assign([email_sent |-> FALSE])
       ELSE /\ outbox' = outbox
            /\ L' = Assign([email_sent |-> FALSE])
    /\ pc' = "return"
    /\ UNCHANGED << sha256, mt19937, storage, transfers >>

\* lines 197-208: the result; then decrypt_pdf is called with the bytes of
\* the written file and the returned key
EncReturn ==
    /\ pc = "return"
    /\ LET result == [success        |-> TRUE,
                      transfer_id    |-> L.transfer_record,
                      num_pages      |-> L.num_pages,
                      encrypted_file |-> L.encrypted_filename,
                      decryption_key |-> L.decryption_key,
                      email_sent     |-> L.email_sent]
       IN  L' = [enc             |-> L,
                 result          |-> result,
                 encrypted_bytes |-> storage[result.encrypted_file],
                 decryption_key  |-> result.decryption_key]
    /\ pc' = "decrypt_pdf"
    /\ UNCHANGED << sha256, mt19937, storage, transfers, outbox >>

\* lines 226-232
DecParseKey ==
    /\ pc = "decrypt_pdf"
    /\ LET parts == Split(L.decryption_key, "|")
       IN  IF Len(parts) # 2
           THEN /\ Raise("ValueError: Invalid decryption key format: Invalid key format")
                /\ pc' = "decrypt_raised"
           ELSE /\ L' = Assign([filename |-> parts[1], timestamp_str |-> parts[2]])
                /\ pc' = "extract"
    /\ UNCHANGED << sha256, mt19937, storage, transfers, outbox >>

\* line 235
DecExtract ==
    /\ pc = "extract"
    /\ LET package == extract_encryption_package(L.encrypted_bytes)
       IN  IF package.err # ""
           THEN /\ Raise(package.err)
                /\ pc' = "decrypt_raised"
           ELSE /\ L' = Assign([package |-> package])
                /\ pc' = "encryptor"
    /\ UNCHANGED << sha256, mt19937, storage, transfers, outbox >>

\* lines 239-245
DecEncryptor ==
    /\ pc = "encryptor"
    /\ IF ~fromisoformat_ok(L.timestamp_str)
       THEN /\ Raise("ValueError: Failed to initialize decryptor from key")
            /\ pc' = "decrypt_raised"
            /\ UNCHANGED sha256
       ELSE \E d \in DigestSamples :
               LET ts == fromisoformat(L.timestamp_str)
                   u  == unique_string(L.filename, ts)
               IN  /\ Sha256Is(u, d)
                   /\ sha256' = Sha256Learn(u, d)
                   /\ L' = Assign([timestamp        |-> ts,
                                   encryptor        |-> NewEncryptor(L.filename, ts, d),
                                   decrypted_images |-> <<>>,
                                   page_num         |-> 0])
                   /\ pc' = "decrypt_page"
    /\ UNCHANGED << mt19937, storage, transfers, outbox >>

\* faulty variant: each image put in front of the ones before it
DecPagePrepend ==
    /\ pc = "decrypt_page"
    /\ L.page_num < Len(L.package.pages)
    /\ LET page_data         == L.package.pages[L.page_num + 1]
           decrypted_chunks  == decrypt_pixels(L.encryptor, page_data.image_data)
           indices           == ArgSort(page_data.shuffle_indices)
           unshuffled_chunks == unshuffle_chunks(decrypted_chunks,
                                                 page_data.shuffle_indices)
       IN  IF ~IndexOk(NumRows(decrypted_chunks), indices)
           THEN /\ Raise("IndexError")
                /\ pc' = "decrypt_raised"
           ELSE IF ~unchunk_ok(unshuffled_chunks, page_data.metadata)
           THEN /\ Raise("ValueError: cannot reshape")
                /\ pc' = "decrypt_raised"
           ELSE /\ L' = Assign([decrypted_images |->
                                   << unchunk_pixels(unshuffled_chunks,
                                                     page_data.metadata) >>
                                   \o L.decrypted_images,
                                page_num |-> L.page_num + 1])
                /\ pc' = "decrypt_page"
    /\ UNCHANGED << sha256, mt19937, storage, transfers, outbox >>

\* lines 248-264, one iteration of the loop
DecPage ==
    /\ pc = "decrypt_page"
    /\ L.page_num < Len(L.package.pages)
    /\ LET page_data         == L.package.pages[L.page_num + 1]
           decrypted_chunks  == decrypt_pixels(L.encryptor, page_data.image_data)
           indices           == ArgSort(page_data.shuffle_indices)
           unshuffled_chunks == unshuffle_chunks(decrypted_chunks,
                                                 page_data.shuffle_indices)
       IN  IF ~IndexOk(NumRows(decrypted_chunks), indices)
           THEN /\ Raise("IndexError")
                /\ pc' = "decrypt_raised"
           ELSE IF ~unchunk_ok(unshuffled_chunks, page_data.metadata)
           THEN /\ Raise("ValueError: cannot reshape")
                /\ pc' = "decrypt_raised"
           ELSE /\ L' = Assign([decrypted_images |->
                                   Append(L.decrypted_images,
                                          unchunk_pixels(unshuffled_chunks,
                                                         page_data.metadata)),
                                page_num |-> L.page_num + 1])
                /\ pc' = "decrypt_page"
    /\ UNCHANGED << sha256, mt19937, storage, transfers, outbox >>

\* faulty variant: the call also leaves a file with the document in storage
DecReturnSaves ==
    /\ pc = "decrypt_page"
    /\ L.page_num = Len(L.package.pages)
    /\ IF L.decrypted_images = <<>>
       THEN /\ Raise("ValueError: No images provided")
            /\ pc' = "decrypt_raised"
       ELSE /\ L' = Assign([returned |->
                              [pdf_bytes         |-> L.decrypted_images,
                               num_pages         |-> Len(L.decrypted_images),
                               original_filename |-> L.filename]])
            /\ pc' = "decrypt_returned"
    /\ storage' = ("decrypted.pdf" :> L.decrypted_images) @@ storage
    /\ UNCHANGED << sha256, mt19937, transfers, outbox >>

\* lines 267-272: images_to_pdf raises on an empty list; the PDF holds the
\* images page by page
DecReturn ==
    /\ pc = "decrypt_page"
    /\ L.page_num = Len(L.package.pages)
    /\ IF L.decrypted_images = <<>>
       THEN /\ Raise("ValueError: No images provided")
            /\ pc' = "decrypt_raised"
       ELSE /\ L' = Assign([returned |->
                              [pdf_bytes         |-> L.decrypted_images,
                               num_pages         |-> Len(L.decrypted_images),
                               original_filename |-> L.filename]])
            /\ pc' = "decrypt_returned"
    /\ UNCHANGED << sha256, mt19937, storage, transfers, outbox >>

Next ==
    \/ EncStart \/ EncRender \/ EncPage \/ EncPrefix \/ EncPackage \/ EncWrite
    \/ EncRecord \/ EncNotify \/ EncReturn
    \/ DecParseKey \/ DecExtract \/ DecEncryptor \/ DecPage \/ DecReturn

Spec == OrchInit /\ [][Next]_vars

(* C1: for every document, filename and encryption timestamp, decrypt_pdf  *)
(* applied to the package bytes written by encrypt_pdf, with the           *)
(* decryption_key that call returned, completes without error and yields,  *)
(* page by page and in page order, the images that were encrypted.         *)
C1_DecryptInvertsEncrypt ==
    /\ pc # "decrypt_raised"
    /\ pc = "decrypt_returned" => L.returned.pdf_bytes = L.enc.images

\* the cases in which the round trip does hold: a filename without '|', at
\* least one page, and no magic token in the PNG before the header
C1_RoundTripOtherwise ==
    (/\ pc \in { "decrypt_raised", "decrypt_returned" }
     /\ \A i \in 1..Len(L.enc.original_filename) : L.enc.original_filename[i] # "|"
     /\ L.enc.images # <<>>
     /\ NoMagicBeforeHeader(L.enc.prefix_bytes))
        => (pc = "decrypt_returned" /\ L.returned.pdf_bytes = L.enc.images)

----------------------------------------------------------------------------
(* Damaged packages.                                                       *)

RECURSIVE DeclaredPayload(_)
\* the sum over the pages of the declared img_size and shuffle_size
DeclaredPayload(pages) ==
    IF pages = <<>> THEN 0
    ELSE Head(pages).img_size + Head(pages).shuffle_size + DeclaredPayload(Tail(pages))

\* 0-based index of the first magic token of a buffer that contains it
FirstMagic(buf) ==
    CHOOSE i \in 0..Len(buf) :
        Occurs(buf, MAGIC, i) /\ \A j \in 0..(i - 1) : ~Occurs(buf, MAGIC, j)

\* the buffer has the magic token and, where it reaches that far, version 1,
\* and is cut short or malformed after it in one of the ways listed by C11
Damaged(buf) ==
    /\ Contains(buf, MAGIC)
    /\ LET h     == FirstMagic(buf) + 6
           m     == UnpackU32BE(SubSeq(buf, h + 2, h + 5))
           meta  == MetaLoads(SubSeq(buf, h + 6, h + 5 + m))
       IN  \/ Len(buf) < h + 1
           \/ /\ buf[h + 1] = 1
              /\ \/ Len(buf) < h + 5
                 \/ Len(buf) - (h + 5) < m
                 \/ meta.err # ""
                 \/ Len(buf) - (h + 5 + m) < DeclaredPayload(meta.pages)

(* C11: extract_encryption_package raises an error, and returns no         *)
(* package, for every buffer with a valid magic token and version whose    *)
(* metadata or payload is truncated or malformed: the buffer ends before   *)
(* the version byte or the 4-byte length, fewer than metaLen metadata      *)
(* bytes follow the header, the metadata does not parse, or fewer payload  *)
(* bytes remain than the pages declare. Any exception counts as the error. *)
C11_DamagedPackageRaises ==
    (pc = "done" /\ Damaged(L.package_bytes))
        => (L.package.err # "" /\ L.package.pages = <<>>)

\* the damage that is detected: everything but a payload cut inside the
\* permutation bytes at a multiple of 4 and an overdeclared metadata length
C11_DetectedDamage ==
    (/\ pc = "done" /\ Damaged(L.package_bytes)
     /\ L.package_bytes \notin OverdeclaredSamples
     /\ L.package.err = "")
        => \E i \in 1..Len(L.package.pages) :
              4 * Len(L.package.pages[i].shuffle_indices)
                  < L.package.pages[i].shuffle_size

----------------------------------------------------------------------------
(* decrypt_pdf on its own: the receiver holds a file that encrypt_pdf      *)
(* wrote for (filename, timestamp), or what is left of it, and types a key *)
(* string. L.enc keeps what the encrypt_pdf call had, for comparison.      *)

OrchChunks == { NumRows(chunk_pixels(img, CHUNK_SIZE)[1]) : img \in OrchImages }

\* one permutation per page, each of the page's number of chunks
PermChoices(doc) ==
    { ps \in [1..Len(doc) -> UNION { Permutations0(n) : n \in OrchChunks }] :
        \A i \in 1..Len(doc) :
            Len(ps[i]) = NumRows(chunk_pixels(doc[i], CHUNK_SIZE)[1]) }

\* the frame encrypt_pdf ends with for these inputs, digest and permutations
EncFrame(doc, f, ts, d, ps) ==
    LET e     == NewEncryptor(f, ts, d)
        pages == [i \in 1..Len(doc) |-> PageOf(doc[i], ps[i], e.chaos_seed)]
        enc_images == [i \in 1..Len(doc) |-> pages[i].encrypted]
        metas      == [i \in 1..Len(doc) |-> pages[i].metadata]
        png        == IF doc = <<>> THEN <<>> ELSE <<137, 80, 78, 71, 13, 10, 26, 10>>
    IN  [images               |-> doc,
         num_pages            |-> Len(doc),
         original_filename    |-> f,
         timestamp            |-> ts,
         encryptor            |-> e,
         shuffle_seed         |-> get_shuffle_seed(e),
         encrypted_images     |-> enc_images,
         metadata_list        |-> metas,
         shuffle_indices_list |-> ps,
         prefix_bytes         |-> png,
         decryption_key       |-> f \o <<"|">> \o isoformat(ts),
         package_bytes        |-> create_encryption_package(enc_images, metas, ps, png)]

\* what the receiver may type for a file encrypted under (f, ts): the key,
\* the key with another timestamp or another filename, and malformed keys
KeyStringSamples(f, ts) ==
    { f \o <<"|">> \o isoformat(t) : t \in TimestampSamples }
    \cup { <<"x", ".", "p", "d", "f", "|">> \o isoformat(ts),
           f,
           f \o <<"|", "x", "|">> \o isoformat(ts),
           f \o <<"|", "n", "o", "w">>,
           f \o <<"|", "2", "0", "2", "3", "-", "0", "2", "-", "2", "9">> }

\* the file as written, lost, or cut right after the magic token
ReceivedSamples(package_bytes) == { package_bytes, <<>>, MAGIC }

\* the frames of the encrypt_pdf calls that returned: no page's shuffle
\* seed is out of range
EncFrameSamples(f) ==
    { enc \in UNION { { EncFrame(doc, f, ts, d, ps) :
                          ps \in PermChoices(doc) } :
                      doc \in RenderedSamples, ts \in TimestampSamples,
                      d \in DigestSamples } :
        \A i \in 1..enc.num_pages : SeedOk(WideAdd(enc.shuffle_seed, i - 1)) }

\* the digest an encryptor was made from
DigestOf(e) == CHOOSE d \in DigestSamples : generate_keys(d) = << e.key, e.chaos_seed >>

DecryptInit ==
    /\ pc = "decrypt_pdf"
    /\ \E enc \in EncFrameSamples(<<"t", ".", "p", "d", "f">>) :
          /\ \E key \in KeyStringSamples(enc.original_filename, enc.timestamp),
                bytes \in ReceivedSamples(enc.package_bytes) :
                L = [enc             |-> enc,
                     encrypted_bytes |-> bytes,
                     decryption_key  |-> key]
          /\ sha256 = (unique_string(enc.original_filename, enc.timestamp)
                         :> DigestOf(enc.encryptor))
          /\ mt19937 =
               [x \in { << NumRows(enc.encrypted_images[i]),
                           WideAdd(enc.shuffle_seed, i - 1) >> : i \in 1..enc.num_pages } |->
                  enc.shuffle_indices_list[
                      CHOOSE i \in 1..enc.num_pages :
                          x = << NumRows(enc.encrypted_images[i]),
                                 WideAdd(enc.shuffle_seed, i - 1) >>]]
          /\ storage = [x \in TokenSamples |-> enc.package_bytes]
          /\ transfers = << [id                 |-> 1,
                             sender_email       |-> "s@x",
                             receiver_email     |-> "r@x",
                             original_filename  |-> enc.original_filename,
                             encrypted_filename |-> CHOOSE x \in TokenSamples : TRUE] >>
    /\ outbox = <<>>

DecryptNext == DecParseKey \/ DecExtract \/ DecEncryptor \/ DecPage \/ DecReturn

SpecDecrypt == DecryptInit /\ [][DecryptNext]_vars

\* the key string has exactly one separator and a timestamp that parses
WellFormedKey(key) ==
    /\ Cardinality({ i \in 1..Len(key) : key[i] = "|" }) = 1
    /\ fromisoformat_ok(Split(key, "|")[2])

\* decrypt_pdf has raised / has returned
Raised == pc = "decrypt_raised"
Returned == pc = "decrypt_returned"

\* decrypt_pdf has deciphered a page
Deciphered == "decrypted_images" \in DOMAIN L /\ L.decrypted_images # <<>>

(* C12: decrypt_pdf rejects with a ValueError, raised before any page is   *)
(* deciphered and before any document is returned, every key string that   *)
(* contains zero or more than one '|' separators, and every key string     *)
(* whose part after the separator is not a parseable ISO timestamp.        *)
C12_MalformedKeyRejected ==
    ~WellFormedKey(L.decryption_key) =>
        /\ ~Returned /\ ~Deciphered
        /\ Raised =>
              L.error \in { "ValueError: Invalid decryption key format: Invalid key format",
                            "ValueError: Failed to initialize decryptor from key" }

\* with a file that extracts, or a key without exactly one separator, the
\* rejection is the key error
C12_RejectedWhenFileExtracts ==
    (/\ ~WellFormedKey(L.decryption_key)
     /\ \/ L.encrypted_bytes = L.enc.package_bytes
        \/ Len(Split(L.decryption_key, "|")) # 2)
        => /\ ~Returned /\ ~Deciphered
           /\ pc \in { "decrypt_pdf", "extract", "encryptor", "decrypt_raised" }
           /\ Raised =>
                 L.error \in { "ValueError: Invalid decryption key format: Invalid key format",
                               "ValueError: Failed to initialize decryptor from key" }

\* the receiver holds the whole file of at least one page and types the
\* filename with another timestamp
WrongTimestampKey ==
    /\ L.encrypted_bytes = L.enc.package_bytes
    /\ L.enc.num_pages >= 1
    /\ L.decryption_key # L.enc.decryption_key
    /\ \E t \in TimestampSamples :
          L.decryption_key = L.enc.original_filename \o <<"|">> \o isoformat(t)

C13_OtherSeedDiffers ==
    (WrongTimestampKey /\ Returned /\ L.returned.pdf_bytes = L.enc.images)
        => L.encryptor.chaos_seed = L.enc.encryptor.chaos_seed

----------------------------------------------------------------------------
(* encrypt_pdf: what a failed or finished request leaves behind            *)

\* the locals of the encrypt_pdf call, also once it has returned
EncLocals == IF "enc" \in DOMAIN L THEN L.enc ELSE L

\* the files in storage that do not hold the whole package of the request
PartialArtifacts ==
    { name \in DOMAIN storage : storage[name] # EncLocals.package_bytes }

(* C14: if any stage of encrypt_pdf fails (rendering, a page's step,       *)
(* packaging, the artifact write, or transfer-record creation) the request *)
(* aborts and afterwards storage holds no artifact file, complete or       *)
(* partial, written by that request.                                       *)
C14_FailureLeavesNoArtifact ==
    pc = "failed" => storage = Empty

\* a failure before the file is opened leaves no artifact and no record
C14_EarlyFailureLeavesNothing ==
    (pc = "failed" /\ L.error \notin { "OSError", "DatabaseError" })
        => (storage = Empty /\ transfers = <<>>)

(* C15: in every reachable state of an encrypt request, also after a       *)
(* failure, every transfer record names an artifact that exists in storage *)
(* and holds the complete package bytes, and the artifact is published     *)
(* atomically before the record is created: no file of storage ever holds  *)
(* less than the complete package.                                         *)
C15_AtomicPublishBeforeRecord ==
    /\ \A i \in 1..Len(transfers) :
          /\ transfers[i].encrypted_filename \in DOMAIN storage
          /\ storage[transfers[i].encrypted_filename] = EncLocals.package_bytes
    /\ PartialArtifacts = {}

\* the part about the records alone: a record is created only after the
\* whole file was written
C15_RecordsNameCompleteArtifacts ==
    \A i \in 1..Len(transfers) :
        /\ transfers[i].encrypted_filename \in DOMAIN storage
        /\ storage[transfers[i].encrypted_filename] = EncLocals.package_bytes

\* encrypt_pdf has returned after an attempt to send the mail failed
NotificationFailed ==
    /\ pc = "decrypt_pdf"
    /\ L.enc.send_email
    /\ outbox = <<>>

(* C16: a notification failure is non-fatal and is reported: whenever      *)
(* sending the notification fails, encrypt_pdf still returns a success     *)
(* result, the artifact and the transfer record stay persisted, and the    *)
(* result's email_sent flag is false.                                      *)
C16_NotificationFailureReported ==
    NotificationFailed =>
        /\ L.result.success
        /\ L.result.encrypted_file \in DOMAIN storage
        /\ Len(transfers) = 1
        /\ ~L.result.email_sent

\* the failure is not fatal, and outside debug mode it is reported
C16_NotificationFailureNotFatal ==
    NotificationFailed =>
        /\ L.result.success
        /\ L.result.encrypted_file \in DOMAIN storage
        /\ Len(transfers) = 1
        /\ ~L.enc.DEBUG => ~L.result.email_sent

----------------------------------------------------------------------------
(* _generate_keys over digests whose bytes 16..23 cover the multiples of   *)
(* 1,000,000, their neighbours and the largest values                      *)

\* hash_bytes[16:24]: seed_int = 0, 1000000, 2000000, 999999, 2^64 - 1, ...
SeedIntSamples ==
    { <<h, h, h, h, h, b2, b1, b0>> :
        h \in {0, 255}, b2 \in {0, 15, 30, 255}, b1 \in {0, 66, 132, 255},
        b0 \in {0, 63, 64, 128, 255} }

SeedInit ==
    /\ pc = "generate_keys"
    /\ \E k \in KeyPrefixSamples, s8 \in SeedIntSamples :
          L = [hash_bytes |-> Digest(k, s8)]
    /\ sha256 = Empty
    /\ mt19937 = Empty
    /\ NoEffects

\* lines 56-68
SeedDerive ==
    /\ pc = "generate_keys"
    /\ L' = Assign([aes_key    |-> generate_keys(L.hash_bytes)[1],
                    chaos_seed |-> generate_keys(L.hash_bytes)[2]])
    /\ pc' = "keys"
    /\ UNCHANGED << sha256, mt19937, storage, transfers, outbox >>

SeedNext == SeedDerive

SpecSeed == SeedInit /\ [][SeedNext]_vars

(* C17, as claimed: for every SHA-256 output the derived chaos seed        *)
(* 0.1 + 0.8 * ((seedInt mod 1,000,000) / 1,000,000) lies in the open      *)
(* interval (0.1, 0.9).                                                    *)
C17_AsClaimed ==
    pc = "keys" => (L.chaos_seed > 1000000 /\ L.chaos_seed < 9000000)

(* C17, amended: for every SHA-256 output the derived chaos seed lies in   *)
(* the half-open interval [0.1, 0.9): it is at least 0.1, strictly less    *)
(* than 0.9, and it is exactly 0.1 when seedInt is a multiple of           *)
(* 1,000,000.                                                              *)
C17_ChaosSeedHalfOpen ==
    pc = "keys" =>
        /\ L.chaos_seed >= 1000000
        /\ L.chaos_seed < 9000000
        /\ BytesMod(SubSeq(L.hash_bytes, 17, 24), 1000000) = 0
              => L.chaos_seed = 1000000

C17_Witness ==
    /\ pc = "keys"
    /\ SubSeq(L.hash_bytes, 17, 24) = <<0, 0, 0, 0, 0, 15, 66, 64>>
    /\ L.chaos_seed = 1000000

----------------------------------------------------------------------------
(* the order of the stages of encrypt_pdf                                  *)

\* a step of the page loop handles the page with index page_num, the next
\* one in order
PageInOrder ==
    /\ L.page_num < L.num_pages
    /\ L'.page_num = L.page_num + 1
    /\ Len(L'.encrypted_images) = L'.page_num
    /\ L'.metadata_list[L'.page_num]
           = chunk_pixels(L.images[L.page_num + 1], CHUNK_SIZE)[2]

\* every step goes from a stage to the next one or to failed, and the
\* effects happen in their own stage only
StageStep ==
    /\ pc = "encrypt_pdf" => pc' = "render"
    /\ pc = "render" => pc' \in { "page", "failed" }
    /\ pc = "page" => \/ pc' = "page" /\ PageInOrder
                      \/ pc' = "package" /\ L.page_num = L.num_pages
                      \/ pc' = "failed"
    /\ pc = "package" => pc' = "write"
    /\ pc = "write" => pc' \in { "record", "failed" }
    /\ pc = "record" => pc' \in { "notify", "failed" }
    /\ pc = "notify" => pc' = "return"
    /\ pc = "return" => pc' = "decrypt_pdf" /\ L'.result.success
    /\ pc # "failed"
    /\ pc' = "failed" => "error" \in DOMAIN L'
    /\ storage' # storage => pc = "write"
    /\ transfers' # transfers =>
          /\ pc = "record"
          /\ storage[L.encrypted_filename] = L.package_bytes
    /\ outbox' # outbox =>
          /\ pc = "notify"
          /\ L.send_email
          /\ Len(transfers) = 1
          /\ transfers[1].encrypted_filename = L.encrypted_filename

\* the attempt to send the mail fails
SendFails == pc = "notify" /\ L.send_email /\ outbox' = outbox

(* C18, as claimed: in every run of encrypt_pdf the stages occur in the    *)
(* order rendering, pages 0..n-1 in index order, packaging, artifact       *)
(* write, record creation, notification, result; a failure in any stage,   *)
(* notification included, ends the run in Failed; notification is          *)
(* attempted only after the record exists and only when send_email was     *)
(* requested.                                                              *)
C18_AsClaimed ==
    [][StageStep /\ (SendFails => pc' = "failed")]_vars

(* C18, amended: the stages occur in that order, none starting before the  *)
(* one before it has completed; a failure in rendering, in a page, in the  *)
(* artifact write or in record creation ends the run in Failed, and Failed *)
(* is final; a failure of the notification does not: the run goes on to    *)
(* the result; notification is attempted only after the record exists and  *)
(* only when send_email was requested.                                     *)
C18_StagesInOrder ==
    [][StageStep /\ (SendFails => pc' = "return")]_vars

C18_Witness ==
    /\ pc = "decrypt_pdf"
    /\ L.enc.num_pages = 2
    /\ L.enc.send_email
    /\ Len(transfers) = 1
    /\ Len(outbox) = 1
    /\ L.result.email_sent

----------------------------------------------------------------------------
(* decrypt_pdf: where the permutation of a page comes from                 *)

\* the image decrypt_pdf would build from a page when unshuffling with perm
UnshuffledWith(page_data, perm) ==
    unchunk_pixels(unshuffle_chunks(decrypt_pixels(L.encryptor, page_data.image_data),
                                    perm),
                   page_data.metadata)

\* the images built so far are the ones that every permutation
\* RandomState(shuffle_seed + p) may give for the typed key leads to
SeedDeterminesPages ==
    \A i \in 1..Len(L.decrypted_images) :
        LET page_data == L.package.pages[i]
            n         == NumRows(page_data.image_data)
            seed      == WideAdd(get_shuffle_seed(L.encryptor), i - 1)
        IN  /\ SeedOk(seed)
            /\ \A perm \in Permutations0(n) :
                  ShuffleIndicesIs(n, seed, perm)
                      => L.decrypted_images[i] = UnshuffledWith(page_data, perm)

(* C19: in decrypt_pdf, page p is unshuffled with the permutation          *)
(* determined by seed shuffleSeedBase + p, where shuffleSeedBase is        *)
(* re-derived from the supplied key string by the formula encrypt uses.    *)
C19_UnshuffleSeedFromKey ==
    pc \in { "decrypt_page", "decrypt_returned" } => SeedDeterminesPages

\* with the key encrypt_pdf returned and the file as written, the stored
\* permutation is the one of seed shuffle_seed + p
C19_RightKeyAgrees ==
    (/\ pc \in { "decrypt_page", "decrypt_returned" }
     /\ L.decryption_key = L.enc.decryption_key
     /\ L.encryptor.key = L.enc.encryptor.key)
        => SeedDeterminesPages

----------------------------------------------------------------------------
(* encrypt_pdf: the seeds of the page loop                                 *)

\* faulty variant: the seed counts the pages shuffled so far
PageSeedByArrival(p) ==
    WideAdd(L.shuffle_seed,
            Cardinality({ q \in DOMAIN L.stage : L.stage[q] \in { "shuffled", "done" } }))

\* the seed line 116 gives page p
PageSeed(p) == WideAdd(L.shuffle_seed, p)

(* C20: the shuffle step is total: for every derived shuffle seed base     *)
(* (0..2^32-1) and every page index p of the document, the per-page seed   *)
(* base + p is within 0..2^32-1, the range the permutation generator       *)
(* accepts, so shuffling page p never raises, and distinct pages get       *)
(* distinct seeds.                                                         *)
C20_ShuffleTotal ==
    /\ pc = "page" =>
          \A p \in 0..(L.num_pages - 1) :
              /\ SeedOk(PageSeed(p))
              /\ \A q \in 0..(L.num_pages - 1) : p # q => PageSeed(p) # PageSeed(q)
    /\ pc = "failed" => L.error # "ValueError: Seed must be between 0 and 2**32 - 1"

\* the seeds of distinct pages are distinct, and a seed in range never
\* makes the page step fail
C20_SeedsDistinct ==
    /\ pc = "page" =>
          \A p, q \in 0..(L.num_pages - 1) : p # q => PageSeed(p) # PageSeed(q)
    /\ (pc = "failed" /\ "num_pages" \in DOMAIN L /\ "package_bytes" \notin DOMAIN L)
          => ~SeedOk(PageSeed(L.page_num))

----------------------------------------------------------------------------
(* decrypt_pdf: what is returned, and for which page entry                 *)

(* C24: decrypt_pdf processes the package's pages in package order and     *)
(* returns them in that order: the i-th decrypted image comes from the     *)
(* i-th page entry, the returned num_pages equals the number of page       *)
(* entries in the package, and the returned original_filename equals the   *)
(* part of the key string before the separator.                            *)
C24_PagesInPackageOrder ==
    /\ pc \in { "decrypt_page", "decrypt_returned" } =>
          /\ Len(L.decrypted_images) = L.page_num
          /\ L.page_num <= Len(L.package.pages)
          /\ \A i \in 1..Len(L.decrypted_images) :
                L.decrypted_images[i]
                    = UnshuffledWith(L.package.pages[i],
                                     L.package.pages[i].shuffle_indices)
    /\ Returned =>
          /\ L.returned.pdf_bytes = L.decrypted_images
          /\ L.returned.num_pages = Len(L.package.pages)
          /\ L.package = extract_encryption_package(L.encrypted_bytes)
          /\ \E k \in 1..Len(L.decryption_key) :
                /\ L.decryption_key[k] = "|"
                /\ L.returned.original_filename = SubSeq(L.decryption_key, 1, k - 1)

C24_Witness ==
    /\ Returned
    /\ L.returned.num_pages = 2
    /\ L.returned.pdf_bytes[1] # L.returned.pdf_bytes[2]
    /\ L.returned.pdf_bytes = L.enc.images
    /\ L.returned.original_filename = <<"t", ".", "p", "d", "f">>

----------------------------------------------------------------------------
(* The body of the page loop of encrypt_pdf run for the pages in any order *)
(* and interleaving: each page goes through chunk, shuffle and encrypt on  *)
(* its own, the others being at any stage; the lists are put together in   *)
(* page order at the end.                                                  *)

PagesInit ==
    /\ pc = "pages"
    /\ \E doc \in RenderedSamples, d \in DigestSamples :
          LET f  == <<"t", ".", "p", "d", "f">>
              ts == DateTime(2024, 2, 29, 23, 59, 59, 0)
              e  == NewEncryptor(f, ts, d)
              pages == 0..(Len(doc) - 1)
          IN  /\ L = [images       |-> doc,
                      encryptor    |-> e,
                      shuffle_seed |-> get_shuffle_seed(e),
                      stage        |-> [q \in pages |-> "todo"],
                      chunks       |-> [q \in pages |-> <<>>],
                      metadata     |-> [q \in pages |-> <<>>],
                      indices      |-> [q \in pages |-> <<>>],
                      encrypted    |-> [q \in pages |-> <<>>]]
              /\ sha256 = (unique_string(f, ts) :> d)
    /\ mt19937 = Empty
    /\ NoEffects

\* lines 101, 114-117, 124: the next statement of the body for some page
PageStep ==
    /\ pc = "pages"
    /\ \E p \in DOMAIN L.stage :
          \/ /\ L.stage[p] = "todo"
             /\ LET ch == chunk_pixels(L.images[p + 1], CHUNK_SIZE)
                IN  L' = Assign([chunks   |-> [L.chunks EXCEPT ![p] = ch[1]],
                                 metadata |-> [L.metadata EXCEPT ![p] = ch[2]],
                                 stage    |-> [L.stage EXCEPT ![p] = "chunked"]])
             /\ pc' = pc
             /\ UNCHANGED mt19937
          \/ /\ L.stage[p] = "chunked"
             /\ LET n    == NumRows(L.chunks[p])
                    seed == PageSeed(p)
                IN  IF ~SeedOk(seed)
                    THEN /\ Raise("ValueError: Seed must be between 0 and 2**32 - 1")
                         /\ pc' = "failed"
                         /\ UNCHANGED mt19937
                    ELSE \E perm \in Permutations0(n) :
                            /\ ShuffleIndicesIs(n, seed, perm)
                            /\ mt19937' = Mt19937Learn(n, seed, perm)
                            /\ L' = Assign(
                                 [chunks  |-> [L.chunks EXCEPT
                                                 ![p] = shuffle_chunks(L.chunks[p], perm)[1]],
                                  indices |-> [L.indices EXCEPT
                                                 ![p] = shuffle_chunks(L.chunks[p], perm)[2]],
                                  stage   |-> [L.stage EXCEPT ![p] = "shuffled"]])
                            /\ pc' = pc
          \/ /\ L.stage[p] = "shuffled"
             /\ L' = Assign([encrypted |-> [L.encrypted EXCEPT
                                              ![p] = encrypt_pixels(L.encryptor, L.chunks[p])],
                             stage     |-> [L.stage EXCEPT ![p] = "done"]])
             /\ pc' = pc
             /\ UNCHANGED mt19937
    /\ UNCHANGED << sha256, storage, transfers, outbox >>

\* lines 131-133 and 157-162: the lists in page order, and the package
PagesAssemble ==
    /\ pc = "pages"
    /\ \A p \in DOMAIN L.stage : L.stage[p] = "done"
    /\ LET n == Len(L.images)
           encrypted_images     == [i \in 1..n |-> L.encrypted[i - 1]]
           metadata_list        == [i \in 1..n |-> L.metadata[i - 1]]
           shuffle_indices_list == [i \in 1..n |-> L.indices[i - 1]]
       IN  L' = Assign([encrypted_images     |-> encrypted_images,
                        metadata_list        |-> metadata_list,
                        shuffle_indices_list |-> shuffle_indices_list,
                        package_bytes        |->
                           create_encryption_package(encrypted_images, metadata_list,
                                                     shuffle_indices_list, <<>>)])
    /\ pc' = "assembled"
    /\ UNCHANGED << sha256, mt19937, storage, transfers, outbox >>

PagesNext == PageStep \/ PagesAssemble

SpecPages == PagesInit /\ [][PagesNext]_vars

\* what the sequential loop gives page p: a function of the page's image,
\* the key material and p
SequentialEntry(p) ==
    LET n == chunk_pixels(L.images[p + 1], CHUNK_SIZE)[2].num_chunks
    IN  PageOf(L.images[p + 1], mt19937[<< n, WideAdd(L.shuffle_seed, p) >>],
               L.encryptor.chaos_seed)

(* C25: per-page processing has no cross-page dependency: the package      *)
(* entry of page p (ciphertext, permutation, chunk metadata) is a function *)
(* of page p's image, the derived key material and p alone, so processing  *)
(* the pages in any order or interleaving and reassembling the results in  *)
(* page order yields the same package bytes as the sequential loop.        *)
C25_PagesIndependent ==
    /\ pc \in { "pages", "assembled" } =>
          \A p \in DOMAIN L.stage :
              L.stage[p] = "done" =>
                  /\ << chunk_pixels(L.images[p + 1], CHUNK_SIZE)[2].num_chunks,
                        WideAdd(L.shuffle_seed, p) >> \in DOMAIN mt19937
                  /\ L.encrypted[p] = SequentialEntry(p).encrypted
                  /\ L.indices[p] = SequentialEntry(p).shuffle_indices
                  /\ L.metadata[p] = SequentialEntry(p).metadata
    /\ pc = "assembled" =>
          L.package_bytes =
              create_encryption_package(
                  [i \in 1..Len(L.images) |-> SequentialEntry(i - 1).encrypted],
                  [i \in 1..Len(L.images) |-> SequentialEntry(i - 1).metadata],
                  [i \in 1..Len(L.images) |-> SequentialEntry(i - 1).shuffle_indices],
                  <<>>)

\* the second page was finished before the first one was started
C25_Witness ==
    /\ pc = "pages"
    /\ Len(L.images) = 2
    /\ L.stage[1] = "done"
    /\ L.stage[0] = "todo"
    /\ L.indices[1] = <<1, 0>>

----------------------------------------------------------------------------
(* One DCKPESEncryptor used for up to MaxCalls calls of encrypt_pixels and *)
(* decrypt_pixels, in any order, on chunk matrices of one and two chunks.  *)
(* Every call is recorded with the chaos sequence it generated.            *)

StreamInit ==
    /\ pc = "calls"
    /\ \E d \in DigestSamples :
          LET f  == <<"t", ".", "p", "d", "f">>
              ts == DateTime(2024, 2, 29, 23, 59, 59, 0)
          IN  /\ L = [encryptor |-> NewEncryptor(f, ts, d),
                      created   |-> NewEncryptor(f, ts, d),
                      calls     |-> <<>>]
              /\ sha256 = (unique_string(f, ts) :> d)
    /\ mt19937 = Empty
    /\ NoEffects

\* faulty variant: the generator leaves its last x in self.chaos_seed
StreamCallStateful ==
    /\ pc = "calls"
    /\ Len(L.calls) < MaxCalls
    /\ \E op \in { "encrypt_pixels", "decrypt_pixels" }, img \in OrchImages :
          LET data      == chunk_pixels(img, CHUNK_SIZE)[1]
              length    == Len(Flatten(data).data)
              chaos_seq == generate_chaos_sequence(L.encryptor.chaos_seed, length)
              x         == logistic_iter(L.encryptor.chaos_seed \div 200, 100 + length)
          IN  L' = Assign([encryptor |-> [L.encryptor EXCEPT !.chaos_seed = 200 * x],
                           calls |-> Append(L.calls,
                                            [op |-> op, length |-> length,
                                             chaos_seq |-> chaos_seq])])
    /\ pc' = pc
    /\ UNCHANGED << sha256, mt19937, storage, transfers, outbox >>

\* encrypt_pixels or decrypt_pixels on the encryptor: the chaos sequence is
\* generated from a local x that starts at self.chaos_seed (lines 95-96),
\* and no statement of lines 85-165 assigns to an attribute of self
StreamCall ==
    /\ pc = "calls"
    /\ Len(L.calls) < MaxCalls
    /\ \E op \in { "encrypt_pixels", "decrypt_pixels" }, img \in OrchImages :
          LET data      == chunk_pixels(img, CHUNK_SIZE)[1]
              length    == Len(Flatten(data).data)
              chaos_seq == generate_chaos_sequence(L.encryptor.chaos_seed, length)
          IN  L' = Assign([encryptor |-> L.encryptor,
                           calls |-> Append(L.calls,
                                            [op |-> op, length |-> length,
                                             chaos_seq |-> chaos_seq,
                                             result |->
                                               IF op = "encrypt_pixels"
                                               THEN cipher_encrypt(data, chaos_seq)
                                               ELSE cipher_decrypt(data, chaos_seq)])])
    /\ pc' = pc
    /\ UNCHANGED << sha256, mt19937, storage, transfers, outbox >>

StreamNext == StreamCall

SpecStream == StreamInit /\ [][StreamNext]_vars

(* C26: the keystream is a pure function of (chaos seed, requested         *)
(* length): generating it leaves the encryptor's key and chaos seed        *)
(* unchanged, so after any sequence of encrypt_pixels and decrypt_pixels   *)
(* calls on an encryptor the keystream produced for a given length is the  *)
(* same as on the first call, and it does not depend on the page index.    *)
C26_KeystreamPure ==
    /\ L.encryptor.key = L.created.key
    /\ L.encryptor.chaos_seed = L.created.chaos_seed
    /\ \A i, j \in 1..Len(L.calls) :
          L.calls[i].length = L.calls[j].length
              => L.calls[i].chaos_seq = L.calls[j].chaos_seq
    /\ \A i \in 1..Len(L.calls) :
          /\ Len(L.calls[i].chaos_seq) = L.calls[i].length
          /\ L.calls[i].chaos_seq
                = generate_chaos_sequence(L.created.chaos_seed, L.calls[i].length)

C26_Witness ==
    /\ Len(L.calls) = 3
    /\ L.calls[1].op = "encrypt_pixels" /\ L.calls[1].length = 64
    /\ L.calls[2].op = "decrypt_pixels" /\ L.calls[2].length = 32
    /\ L.calls[3].op = "decrypt_pixels" /\ L.calls[3].length = 64
    /\ L.calls[3].chaos_seq = L.calls[1].chaos_seq
    /\ L.calls[3].chaos_seq # L.calls[2].chaos_seq \o L.calls[2].chaos_seq

----------------------------------------------------------------------------
(* decrypt_pdf: what of the key reaches the images                         *)

\* the images decrypt_pdf builds from the extracted package with encryptor e
ImagesFor(e) ==
    [i \in 1..Len(L.package.pages) |->
        unchunk_pixels(unshuffle_chunks(decrypt_pixels(e, L.package.pages[i].image_data),
                                        L.package.pages[i].shuffle_indices),
                       L.package.pages[i].metadata)]

(* C27: the page images returned by decrypt_pdf for a given package depend *)
(* on the key string only through the derived chaos seed: two well-formed  *)
(* key strings whose hashes give the same chaos seed (same seedInt mod     *)
(* 1,000,000) produce identical page images, whatever their filename,      *)
(* symmetric key and shuffle seed base, because the permutation used to    *)
(* unshuffle is the one stored in the package.                             *)
C27_OnlyChaosSeedMatters ==
    Returned =>
        \A d \in DigestSamples :
            LET other == NewEncryptor(<<"o">>, DateTime(1999, 12, 31, 0, 0, 0, 0), d)
            IN  (other.chaos_seed = L.encryptor.chaos_seed /\ other.key # L.encryptor.key)
                    => ImagesFor(other) = L.returned.pdf_bytes

\* a key with another filename, another symmetric key and shuffle seed but
\* the chaos seed of the encryption returns the pages of the right key
C27_Witness ==
    /\ Returned
    /\ L.filename # L.enc.original_filename
    /\ L.encryptor.key # L.enc.encryptor.key
    /\ get_shuffle_seed(L.encryptor) # L.enc.shuffle_seed
    /\ L.encryptor.chaos_seed = L.enc.encryptor.chaos_seed
    /\ L.enc.num_pages = 2
    /\ L.returned.pdf_bytes = L.enc.images

----------------------------------------------------------------------------
(* decrypt_pdf: what it leaves behind                                      *)

(* C28: decrypt_pdf has no persistent effect: whether it returns a         *)
(* document or raises, it writes no artifact to storage, creates or        *)
(* changes no transfer record and sends no notification, and it leaves the *)
(* input package bytes unchanged.                                          *)
C28_DecryptNoEffect ==
    [][/\ storage' = storage
       /\ transfers' = transfers
       /\ outbox' = outbox
       /\ L'.encrypted_bytes = L.encrypted_bytes]_vars

C28_Witness ==
    /\ Raised
    /\ L.error = "ValueError: Failed to initialize decryptor from key"
    /\ L.encrypted_bytes = L.enc.package_bytes
    /\ L.enc.num_pages = 2
    /\ DOMAIN storage = TokenSamples
    /\ \A name \in DOMAIN storage : storage[name] = L.enc.package_bytes
    /\ Len(transfers) = 1
    /\ outbox = <<>>

\* the same at the end of a call that returned a document
C28_ReturnedNoEffect ==
    Returned =>
        /\ \A name \in DOMAIN storage : storage[name] = L.enc.package_bytes
        /\ DOMAIN storage = TokenSamples
        /\ Len(transfers) = 1
        /\ outbox = <<>>

\* the renderer returned no page
ZeroPages == "images" \in DOMAIN EncLocals /\ EncLocals.images = <<>>

\* encrypt_pdf on a document of no page, as far as it has come: the empty
\* prefix, the package of no page, the file, the record and the result
ZeroPagesEncrypted ==
    /\ pc = "failed" => L.error \in { "OSError", "DatabaseError" }
    /\ "prefix_bytes" \in DOMAIN EncLocals => EncLocals.prefix_bytes = <<>>
    /\ "package_bytes" \in DOMAIN EncLocals =>
          /\ SubSeq(EncLocals.package_bytes, 1, Len(MAGIC)) = MAGIC
          /\ extract_encryption_package(EncLocals.package_bytes)
                = [err |-> "", pages |-> <<>>]
    /\ "encrypted_filename" \in DOMAIN EncLocals =>
          storage[EncLocals.encrypted_filename] = EncLocals.package_bytes
    /\ "transfer_record" \in DOMAIN EncLocals =>
          /\ Len(transfers) = 1
          /\ transfers[1].encrypted_filename = EncLocals.encrypted_filename
    /\ "result" \in DOMAIN L =>
          /\ L.result.success
          /\ L.result.num_pages = 0
          /\ L.result.transfer_id = 1
          /\ L.encrypted_bytes = L.enc.package_bytes
          /\ L.decryption_key = L.enc.decryption_key

(* C30: if the renderer returns zero pages, encrypt_pdf does not fail      *)
(* (failures of the file system and the database aside): the error raised  *)
(* while building the first-page image prefix is swallowed, a package with *)
(* num_pages = 0 and an empty prefix is written to storage, a transfer     *)
(* record is created and a success result is returned; decrypt_pdf of that *)
(* artifact with the returned key then raises 'No images provided'         *)
(* instead of returning a document.                                        *)
C30_ZeroPagesNoImagesProvided ==
    ZeroPages =>
        /\ ZeroPagesEncrypted
        /\ ~Returned
        /\ Raised => L.error = "ValueError: No images provided"

\* the same, the error told apart by the filename: a name with the
\* separator in it makes the returned key one of three parts
C30_ZeroPagesNeverDecrypted ==
    ZeroPages =>
        /\ ZeroPagesEncrypted
        /\ ~Returned
        /\ Raised =>
              L.error = IF Len(Split(L.enc.original_filename, "|")) = 1
                        THEN "ValueError: No images provided"
                        ELSE "ValueError: Invalid decryption key format: Invalid key format"

\* both errors are raised for documents of no page
C30_Reached ==
    /\ ZeroPages
    /\ Raised
    /\ L.result.success
    /\ L.error = "ValueError: No images provided"

====
